---- MODULE Spec2Model ----
(***************************************************************************)
(* Model of the RU driver-license extraction pipeline                      *)
(* (rentals/ocr/ru_dl: pipeline.py, parse.py, schema.py).                  *)
(*                                                                         *)
(* Text is a sequence of Unicode code points (Python str), so the regular  *)
(* expressions and translation tables of parse.py are modelled character   *)
(* by character.  The alphabet of the model is ASCII plus the Russian      *)
(* Cyrillic block.  A confidence is an integer number of thousandths       *)
(* (0.75 is 750); the code rounds its derived confidences to 3 decimals.   *)
(* A Python value is a pair <<tag, payload>>: None is <<"none", <<>>>>,    *)
(* a str is <<"str", text>>, a list of str is <<"list", <<text, ...>>>>.   *)
(***************************************************************************)
EXTENDS Integers, Sequences, FiniteSets, TLC

VARIABLES
    pc,                      \* position in extract()
    cv2_available,           \* pipeline.py:38-43, cv2 and np imported
    strftime_pads_year,      \* platform: does strftime("%Y") zero-pad years < 1000
    front_bytes, back_bytes, \* arguments of extract()
    warnings, images,        \* extract() locals (lists)
    front_rois, back_rois,
    front_processed_variants,
    front_roi_text, back_roi_text,
    front_context_text,
    parsed_front,
    region_parsed,           \* history: parsed_front right after the region-based parse
    fallback_text, fallback_conf,
    calls,                   \* history: which collaborators have been called
    raised,                  \* history: exception that left _process_side, if any
    response,                \* the value extract() returns
    status_fields,           \* argument of a direct call of determine_status
    status_result,           \* and what it returned
    call_arg,                \* argument of a direct call of a function of parse.py
    call_result,             \* what the call returned
    call_again,              \* normalize_date of the date it returned
    side_arg, image,         \* _process_side at pipeline.py:564: its side, its decoded image
    keypoint_settings,       \* OCR_KEYPOINT_MODEL_PATH and OCR_USE_KEYPOINTS
    keypoint_outcome,        \* history: what detect_keypoints and warp_with_keypoints did
    warped, alignment,       \* _process_side locals
    PaddleOCR, YOLO,         \* ocr_engine.PaddleOCR, keypoint_detect.YOLO: imported or None
    _OCR_INSTANCE, _OCR_LOCK,\* ocr_engine.py:29-30
    _MODEL, _MODEL_LOCK,     \* keypoint_detect.py:21-22
    thread_pc,               \* where each request thread stands in get_ocr / _get_model
    thread_call,             \* the call each thread makes
    thread_results,          \* history: what each thread's calls returned
    constructor_calls,       \* history: the constructor calls that returned an engine
    anchor_settings,         \* OCR_USE_ANCHORS in the settings and in the environment
    boxes,                   \* what run_ocr_with_boxes gives for the front image
    template_texts,          \* what run_ocr gives for the sample regions of each template
    anchors,                 \* _select_front_template local
    selected,                \* what _select_front_template returned
    scoring_calls,            \* history: the calls of _score_front_templates
    processed_variants,     \* _ocr_rois argument: how many preprocessed images
    rois_arg,               \* _ocr_rois argument: the regions in the order of the dict
    roi_index,              \* _ocr_rois: the region of the outer loop
    variant_index,          \* _ocr_rois: the region variant of the search
    image_index,            \* _ocr_rois: the preprocessed image of the search
    best_candidate,         \* _ocr_rois locals best_score, best_text, best_conf
    results,                \* _ocr_rois local
    ocr_calls,              \* history: the calls of run_ocr as <<region, variant, image>>
    ocr_texts,              \* history: the regions for which a call of run_ocr returned texts
    first_pass,             \* history: the candidate of the first call of each region
    dictionary_global,      \* parse.py:41, the global _NAME_DICTIONARY of the process
    dictionary_path,        \* os.environ has OCR_NAME_DICTIONARY_PATH
    file_readable,          \* the file at that path can be opened and read
    load_data,              \* _load_name_dictionary local data of each thread
    assignments            \* history: the values assigned to the global

vars == <<pc, cv2_available, strftime_pads_year, front_bytes, back_bytes, warnings,
          images, front_rois, back_rois, front_processed_variants, front_roi_text,
          back_roi_text, front_context_text, parsed_front, region_parsed,
          fallback_text, fallback_conf, calls, raised, response, status_fields,
          status_result,
          call_arg, call_result, call_again,
          side_arg, image, keypoint_settings, keypoint_outcome, warped, alignment,
          PaddleOCR, YOLO, _OCR_INSTANCE, _OCR_LOCK, _MODEL, _MODEL_LOCK,
          thread_pc, thread_call, thread_results, constructor_calls,
          anchor_settings, boxes, template_texts, anchors, selected, scoring_calls,
          processed_variants, rois_arg, roi_index, variant_index, image_index, best_candidate, results, ocr_calls, ocr_texts, first_pass,
          dictionary_global, dictionary_path, file_readable, load_data, assignments>>

\* the variables of the steps of _process_side after the alignment
step_vars == <<anchor_settings, boxes, template_texts, anchors, selected, scoring_calls>>

\* the variables of a call of _ocr_rois
roi_vars == <<processed_variants, rois_arg, roi_index, variant_index, image_index, best_candidate, results, ocr_calls, ocr_texts, first_pass>>

\* the variables of the name dictionary of parse.py
dict_vars == <<dictionary_global, dictionary_path, file_readable, load_data, assignments>>

\* the variables of the alignment step of _process_side
align_vars == <<side_arg, image, keypoint_settings, keypoint_outcome, warped, alignment>>

\* the variables of the engine singletons and of the threads that ask for them
engine_vars == <<PaddleOCR, YOLO, _OCR_INSTANCE, _OCR_LOCK, _MODEL, _MODEL_LOCK,
                 thread_pc, thread_call, thread_results, constructor_calls>>

----------------------------------------------------------------------------
(* Python values *)

None == <<"none", <<>>>>
Str(s) == <<"str", s>>
List(l) == <<"list", l>>

\* pipeline.py:280-281   value in (None, "", [])
_is_missing_value(value) == value[2] = <<>>

\* Python truthiness of a value
Truthy(value) == value[2] # <<>>

----------------------------------------------------------------------------
(* Characters and text primitives (Python str / re semantics) *)

IsDigit(c) == c \in 48..57
IsSpace(c) == c \in {9, 10, 11, 12, 13, 32}
IsLatin(c) == c \in 65..90 \/ c \in 97..122

\* the list a Python comprehension builds, given as the function f on 1..n.
\* Concatenating <<>> makes TLC hold it as an explicit tuple and not as a rule that is
\* evaluated anew at every index.
Listed(f) == f \o <<>>

\* CYRILLIC_RE  [А-ЯЁа-яё]
CYRILLIC_RE(c) == c \in 1040..1071 \/ c = 1025 \/ c \in 1072..1103 \/ c = 1105

\* str.upper() on the model's alphabet
UpperChar(c) ==
    IF c \in 97..122 THEN c - 32
    ELSE IF c \in 1072..1103 THEN c - 32
    ELSE IF c = 1105 THEN 1025
    ELSE c

Upper(s) == Listed([i \in 1..Len(s) |-> UpperChar(s[i])])

RECURSIVE LStrip(_)
LStrip(s) == IF s # <<>> /\ IsSpace(Head(s)) THEN LStrip(Tail(s)) ELSE s

RECURSIVE RStrip(_)
RStrip(s) ==
    IF s # <<>> /\ IsSpace(s[Len(s)]) THEN RStrip(SubSeq(s, 1, Len(s) - 1)) ELSE s

\* str.strip()
Strip(s) == RStrip(LStrip(s))

\* re.sub(r"\s+", " ", s): every run of whitespace becomes one space
RECURSIVE CollapseSpace(_)
CollapseSpace(s) ==
    IF s = <<>> THEN <<>>
    ELSE IF IsSpace(Head(s))
         THEN <<32>> \o CollapseSpace(LStrip(s))
         ELSE <<Head(s)>> \o CollapseSpace(Tail(s))

\* re.sub(r"\s+", "", s)
RemoveSpace(s) == SelectSeq(s, LAMBDA c : ~IsSpace(c))

\* sub in s (Python "in" for str)
Contains(s, sub) ==
    \E i \in 0..(Len(s) - Len(sub)) : SubSeq(s, i + 1, i + Len(sub)) = sub

\* sep.join(parts)
RECURSIVE Join(_, _)
Join(parts, sep) ==
    IF parts = <<>> THEN <<>>
    ELSE IF Len(parts) = 1 THEN parts[1]
    ELSE parts[1] \o sep \o Join(Tail(parts), sep)

\* str.split(): the maximal runs of non-whitespace
RECURSIVE Split(_)
Split(s) ==
    LET t == LStrip(s) IN
    IF t = <<>> THEN <<>>
    ELSE LET n == CHOOSE k \in 1..Len(t) :
                      /\ \A j \in 1..k : ~IsSpace(t[j])
                      /\ (k = Len(t) \/ IsSpace(t[k + 1]))
         IN <<SubSeq(t, 1, n)>> \o Split(SubSeq(t, n + 1, Len(t)))

\* str.splitlines() for the line break "\n" (the only one the pipeline joins with)
RECURSIVE SplitLines(_)
SplitLines(s) ==
    IF s = <<>> THEN <<>>
    ELSE IF \E k \in 1..Len(s) : s[k] = 10
         THEN LET n == CHOOSE k \in 1..Len(s) : s[k] = 10 /\ \A j \in 1..(k - 1) : s[j] # 10
              IN <<SubSeq(s, 1, n - 1)>> \o SplitLines(SubSeq(s, n + 1, Len(s)))
         ELSE <<s>>

\* Python str comparison a <= b (lexicographic by code point)
RECURSIVE StrLE(_, _)
StrLE(a, b) ==
    IF a = <<>> THEN TRUE
    ELSE IF b = <<>> THEN FALSE
    ELSE IF Head(a) # Head(b) THEN Head(a) < Head(b)
    ELSE StrLE(Tail(a), Tail(b))

\* int(text) for a text of decimal digits
RECURSIVE ToInt(_)
ToInt(s) == IF s = <<>> THEN 0 ELSE 10 * ToInt(SubSeq(s, 1, Len(s) - 1)) + (s[Len(s)] - 48)

\* the number of leading digits of s, at most max
RECURSIVE DigitRun(_, _)
DigitRun(s, max) ==
    IF max = 0 \/ s = <<>> \/ ~IsDigit(Head(s)) THEN 0 ELSE 1 + DigitRun(Tail(s), max - 1)

\* n as decimal digits, zero-padded to width
RECURSIVE Pad(_, _)
Pad(n, width) ==
    IF width <= 1 /\ n < 10 THEN <<48 + n>>
    ELSE Pad(n \div 10, width - 1) \o <<48 + (n % 10)>>

----------------------------------------------------------------------------
(* parse.py: normalisation *)

\* parse.py:100-101
normalize_whitespace(text) == CollapseSpace(Strip(text))

\* parse.py:51-68
DIGIT_TRANSLATION(c) ==
    CASE c \in {79, 111, 81, 68} -> 48       \* O o Q D -> 0
      [] c \in {73, 108, 76} -> 49           \* I l L -> 1
      [] c = 90 -> 50                        \* Z -> 2
      [] c \in {83, 115} -> 53               \* S s -> 5
      [] c = 66 -> 56                        \* B -> 8
      [] c \in {71, 103} -> 54               \* G g -> 6
      [] c = 84 -> 55                        \* T -> 7
      [] OTHER -> c

\* parse.py:104-107
_normalize_digit_ocr(text) == Listed([i \in 1..Len(text) |-> DIGIT_TRANSLATION(text[i])])

IsLeap(year) == (year % 4 = 0 /\ year % 100 # 0) \/ year % 400 = 0

DaysInMonth(year, month) ==
    IF month = 2 THEN (IF IsLeap(year) THEN 29 ELSE 28)
    ELSE IF month \in {4, 6, 9, 11} THEN 30 ELSE 31

\* datetime(year, month, day) does not raise ValueError
ValidDate(year, month, day) ==
    /\ year \in 1..9999
    /\ month \in 1..12
    /\ day \in 1..DaysInMonth(year, month)

\* date.strftime("%Y-%m-%d"); "%Y" of a year below 1000 is zero-padded or not,
\* depending on the platform's C library
strftime(year, month, day) ==
    (IF strftime_pads_year THEN Pad(year, 4) ELSE Pad(year, 1))
        \o <<45>> \o Pad(month, 2) \o <<45>> \o Pad(day, 2)

\* re.search(r"(\d{4})-(\d{2})-(\d{2})", text) matches at offset i (0-based)
IsoMatchAt(text, i) ==
    /\ i + 10 <= Len(text)
    /\ \A j \in {1, 2, 3, 4, 6, 7, 9, 10} : IsDigit(text[i + j])
    /\ text[i + 5] = 45
    /\ text[i + 8] = 45

IsDateSep(c) == c \in {46, 45, 47, 32}       \* [.\-/ ]

\* DATE_PATTERN (parse.py:10) tried at offset i with day and month lengths a, b:
\* (\d{1,2})[.\-/ ](\d{1,2})[.\-/ ](\d{2,4})
DateMatchAt(text, i, a, b) ==
    /\ i + a + b + 4 <= Len(text)
    /\ \A j \in 1..a : IsDigit(text[i + j])
    /\ IsDateSep(text[i + a + 1])
    /\ \A j \in 1..b : IsDigit(text[i + a + 1 + j])
    /\ IsDateSep(text[i + a + b + 2])
    /\ IsDigit(text[i + a + b + 3])
    /\ IsDigit(text[i + a + b + 4])

\* the lengths the backtracking matcher settles on at offset i: greedy day, then month
DateMatchLens(text, i) ==
    IF DateMatchAt(text, i, 2, 2) THEN <<2, 2>>
    ELSE IF DateMatchAt(text, i, 2, 1) THEN <<2, 1>>
    ELSE IF DateMatchAt(text, i, 1, 2) THEN <<1, 2>>
    ELSE IF DateMatchAt(text, i, 1, 1) THEN <<1, 1>>
    ELSE <<0, 0>>

\* parse.py:110-136
normalize_date(text) ==
    IF text = <<>> THEN None
    ELSE
    LET commas(t0) == Listed([i \in 1..Len(t0) |-> IF t0[i] = 44 THEN 46 ELSE t0[i]])
        first(at) == CHOOSE k \in at : \A m \in at : k <= m
        date(year, month, day) ==
            IF ValidDate(year, month, day) THEN Str(strftime(year, month, day)) ELSE None
        iso(t, i) ==
            date(ToInt(SubSeq(t, i + 1, i + 4)), ToInt(SubSeq(t, i + 6, i + 7)),
                 ToInt(SubSeq(t, i + 9, i + 10)))
        century(yy) == IF yy < 100 THEN (IF yy < 30 THEN 2000 + yy ELSE 1900 + yy) ELSE yy
        dmy(t, i, ab) ==
            LET ystart == i + ab[1] + ab[2] + 3
                ylen == DigitRun(SubSeq(t, ystart, Len(t)), 4)
            IN date(century(ToInt(SubSeq(t, ystart, ystart + ylen - 1))),
                    ToInt(SubSeq(t, i + ab[1] + 2, i + ab[1] + 1 + ab[2])),
                    ToInt(SubSeq(t, i + 1, i + ab[1])))
        search(t) ==
            LET isoAt == {i \in 0..Len(t) : IsoMatchAt(t, i)}
                dateAt == {i \in 0..Len(t) : DateMatchLens(t, i) # <<0, 0>>}
            IN IF isoAt # {} THEN iso(t, first(isoAt))
               ELSE IF dateAt = {} THEN None
               ELSE dmy(t, first(dateAt), DateMatchLens(t, first(dateAt)))
    IN search(commas(_normalize_digit_ocr(text)))

\* normalize_license_number without the search for a run of ten digits
normalize_license_number_strip(text) ==
    IF text = <<>> THEN None
    ELSE
    LET digits == SelectSeq(_normalize_digit_ocr(text), IsDigit)
    IN  IF Len(digits) # 10 THEN None
        ELSE Str(SubSeq(digits, 1, 2) \o <<32>> \o SubSeq(digits, 3, 4) \o <<32>>
                 \o SubSeq(digits, 5, 10))

\* parse.py:139-151
normalize_license_number(text) ==
    IF text = <<>> THEN None
    ELSE
    LET normalized == _normalize_digit_ocr(text)
        runAt == {i \in 0..(Len(normalized) - 10) :
                      \A j \in 1..10 : IsDigit(normalized[i + j])}
        digits == IF runAt # {}
                  THEN LET i == CHOOSE k \in runAt : \A m \in runAt : k <= m
                       IN SubSeq(normalized, i + 1, i + 10)
                  ELSE SelectSeq(normalized, IsDigit)
    IN  IF Len(digits) # 10 THEN None
        ELSE Str(SubSeq(digits, 1, 2) \o <<32>> \o SubSeq(digits, 3, 4) \o <<32>>
                 \o SubSeq(digits, 5, 10))

\* re \w on the model's alphabet, for the word boundary \b
IsWord(c) == IsDigit(c) \/ IsLatin(c) \/ CYRILLIC_RE(c) \/ c = 95

\* \b holds at offset i of s (between s[i] and s[i+1])
WordBoundary(s, i) ==
    LET before == i >= 1 /\ i <= Len(s) /\ IsWord(s[i])
        after == i + 1 <= Len(s) /\ IsWord(s[i + 1])
    IN before # after

\* CATEGORY_PATTERN's alternatives, in the order the pattern lists them (parse.py:12)
CATEGORY_TOKENS ==
    << <<65, 49>>, <<66, 49>>, <<67, 49>>, <<68, 49>>, <<66, 69>>, <<67, 69>>, <<68, 69>>,
       <<65>>, <<66>>, <<67>>, <<68>>, <<77>>, <<84, 77>>, <<84, 66>> >>

\* the alternative CATEGORY_PATTERN matches at offset i, or 0 if none does
CategoryMatchAt(s, i) ==
    LET ok(k) == /\ WordBoundary(s, i)
                 /\ i + Len(CATEGORY_TOKENS[k]) <= Len(s)
                 /\ SubSeq(s, i + 1, i + Len(CATEGORY_TOKENS[k])) = CATEGORY_TOKENS[k]
                 /\ WordBoundary(s, i + Len(CATEGORY_TOKENS[k]))
        hits == {k \in 1..Len(CATEGORY_TOKENS) : ok(k)}
    IN IF hits = {} THEN 0 ELSE CHOOSE k \in hits : \A m \in hits : k <= m

\* CATEGORY_PATTERN.findall(s) from offset i on
RECURSIVE CategoryFindAll(_, _)
CategoryFindAll(s, i) ==
    IF i >= Len(s) THEN <<>>
    ELSE LET k == CategoryMatchAt(s, i)
         IN IF k = 0 THEN CategoryFindAll(s, i + 1)
            ELSE <<CATEGORY_TOKENS[k]>> \o CategoryFindAll(s, i + Len(CATEGORY_TOKENS[k]))

\* first occurrences only, order kept
RECURSIVE Dedup(_)
Dedup(l) ==
    IF l = <<>> THEN <<>>
    ELSE LET init == Dedup(SubSeq(l, 1, Len(l) - 1))
             last == l[Len(l)]
         IN IF \E i \in 1..Len(init) : init[i] = last THEN init ELSE Append(init, last)

\* parse_categories with every match kept, repeated ones too
parse_categories_all(text) ==
    IF text = <<>> THEN List(<<>>)
    ELSE List(CategoryFindAll(Upper(text), 0))

\* parse.py:154-162
parse_categories(text) ==
    IF text = <<>> THEN List(<<>>)
    ELSE List(Dedup(CategoryFindAll(Upper(text), 0)))

\* round(num / den, 3) in thousandths, num in thousandths; a tie is rounded up (the
\* code's binary floats settle a tie either way, 0.001 apart)
Round3(num, den) == (2 * num + den) \div (2 * den)

\* parse.py:165-169
_avg_conf(confidences) ==
    LET RECURSIVE Sum(_)
        Sum(l) == IF l = <<>> THEN 0 ELSE Head(l) + Sum(Tail(l))
    IN IF confidences = <<>> THEN 0 ELSE Round3(Sum(confidences), Len(confidences))

\* rois.get(key, {})
RoiGet(rois, key) ==
    IF key \in DOMAIN rois THEN rois[key] ELSE [text |-> <<>>, confidence |-> 0]

\* parse.py:172-173
_roi_text(rois, key) == normalize_whitespace(RoiGet(rois, key).text)

\* parse.py:176-177
_roi_conf(rois, key) == RoiGet(rois, key).confidence

\* parse.py:17, 180-181   LABEL_PREFIX_RE = ^\s*\d+[a-zA-Z]?[.)]?\s*
_strip_label_prefix(text) ==
    LET t1 == LStrip(text)
        n == DigitRun(t1, Len(t1))
        t2 == SubSeq(t1, n + 1, Len(t1))
        t3 == IF t2 # <<>> /\ IsLatin(Head(t2)) THEN Tail(t2) ELSE t2
        t4 == IF t3 # <<>> /\ Head(t3) \in {46, 41} THEN Tail(t3) ELSE t3
    IN IF n = 0 THEN Strip(text) ELSE Strip(t4)

\* parse.py:70-97
LATIN_TO_CYR(c) ==
    CASE c = 65 -> 1040 [] c = 97 -> 1072      \* A a
      [] c = 66 -> 1042 [] c = 98 -> 1074      \* B b
      [] c = 69 -> 1045 [] c = 101 -> 1077     \* E e
      [] c = 75 -> 1050 [] c = 107 -> 1082     \* K k
      [] c = 77 -> 1052 [] c = 109 -> 1084     \* M m
      [] c = 72 -> 1053 [] c = 104 -> 1085     \* H h
      [] c = 79 -> 1054 [] c = 111 -> 1086     \* O o
      [] c = 80 -> 1056 [] c = 112 -> 1088     \* P p
      [] c = 67 -> 1057 [] c = 99 -> 1089      \* C c
      [] c = 84 -> 1058 [] c = 116 -> 1090     \* T t
      [] c = 88 -> 1061 [] c = 120 -> 1093     \* X x
      [] c = 89 -> 1059 [] c = 121 -> 1091     \* Y y
      [] OTHER -> c

\* the class [A-Za-zА-яЁё\s-] that NAME_CLEAN_RE (parse.py:37) and parse.py:187 keep
NameChar(c) ==
    IsLatin(c) \/ c \in 1040..1103 \/ c = 1025 \/ c = 1105 \/ IsSpace(c) \/ c = 45

\* the class [0-9А-яЁё\s-] that ISSUER_CLEAN_RE (parse.py:39) keeps
IssuerChar(c) ==
    IsDigit(c) \/ c \in 1040..1103 \/ c = 1025 \/ c = 1105 \/ IsSpace(c) \/ c = 45

HasCyrillic(s) == \E i \in 1..Len(s) : CYRILLIC_RE(s[i])
HasDigit(s) == \E i \in 1..Len(s) : IsDigit(s[i])

\* parse.py:184-193
_clean_name_line(text) ==
    LET bullets(c1) == Listed([i \in 1..Len(c1) |-> IF c1[i] \in {8226, 183} THEN 32 ELSE c1[i]])
        letters(c2) == Listed([i \in 1..Len(c2) |-> IF NameChar(c2[i]) THEN c2[i] ELSE 32])
        cyrillic(c3) == Listed([i \in 1..Len(c3) |-> LATIN_TO_CYR(c3[i])])
        no_latin(c4) == Listed([i \in 1..Len(c4) |-> IF IsLatin(c4[i]) THEN 32 ELSE c4[i]])
        finish(c3) == IF ~HasCyrillic(c3) THEN <<>>
                      ELSE normalize_whitespace(no_latin(cyrillic(c3)))
    IN finish(letters(bullets(_strip_label_prefix(text))))

\* parse.py:41, 196-221: the name dictionary of a process in which
\* OCR_NAME_DICTIONARY_PATH is not set
_NAME_DICTIONARY == {}

\* parse.py:224-229; a token that is no dictionary word and has no close match stays
_correct_name_token(token, dictionary) == token

\* parse.py:232-240
_apply_name_dictionary(text) ==
    IF text = <<>> THEN text
    ELSE IF _NAME_DICTIONARY = {} THEN text
    ELSE LET tokens == Split(text)
         IN Join(Listed([i \in 1..Len(tokens) |->
                             _correct_name_token(Upper(tokens[i]), _NAME_DICTIONARY)]),
                 <<32>>)

\* parse.py:43-49   А -> A, В -> B, Б -> B
MARKER_TRANSLATION(c) ==
    CASE c = 1040 -> 65 [] c = 1042 -> 66 [] c = 1041 -> 66 [] OTHER -> c

\* the lines of raw_text that are not blank, whitespace-normalised
\* (parse.py:246 and parse.py:400)
NormLines(raw_text) ==
    LET ls == SelectSeq(SplitLines(raw_text), LAMBDA l : Strip(l) # <<>>)
    IN Listed([i \in 1..Len(ls) |-> normalize_whitespace(ls[i])])

\* parse.py:243-257
_extract_marker_date(raw_text, markers) ==
    IF raw_text = <<>> THEN None
    ELSE
    LET normalized(line) ==
            Listed([j \in 1..Len(line) |-> MARKER_TRANSLATION(line[j])])
        or_next(date, lines, idx) ==
            IF ~Truthy(date) /\ idx + 1 <= Len(lines)
            THEN normalize_date(lines[idx + 1]) ELSE date
        dateAt(lines, idx) == or_next(normalize_date(lines[idx]), lines, idx)
        first(hits) == CHOOSE idx \in hits : \A m \in hits : idx <= m
        found(lines, hits) == IF hits = {} THEN None ELSE dateAt(lines, first(hits))
        search(lines) ==
            found(lines,
                  {idx \in 1..Len(lines) :
                       /\ \E m \in markers :
                              Contains(normalized(RemoveSpace(Upper(lines[idx]))), m)
                       /\ Truthy(dateAt(lines, idx))})
    IN search(NormLines(raw_text))

\* adjacent equal tokens collapsed (parse.py:270-273)
RECURSIVE DedupAdjacent(_)
DedupAdjacent(tokens) ==
    IF Len(tokens) <= 1 THEN tokens
    ELSE LET init == DedupAdjacent(SubSeq(tokens, 1, Len(tokens) - 1))
             last == tokens[Len(tokens)]
         IN IF init[Len(init)] = last THEN init ELSE Append(init, last)

\* parse.py:260-275
_clean_issuer_line(text) ==
    LET cyrillic(c1) == Listed([i \in 1..Len(c1) |-> LATIN_TO_CYR(c1[i])])
        letters(c2) == Listed([i \in 1..Len(c2) |-> IF IssuerChar(c2[i]) THEN c2[i] ELSE 32])
        tokens(c4) == IF ~HasCyrillic(c4) THEN <<>>
                      ELSE Join(DedupAdjacent(Split(c4)), <<32>>)
        cleaned(c1) == IF c1 = <<>> THEN <<>>
                       ELSE tokens(normalize_whitespace(letters(cyrillic(c1))))
    IN cleaned(_strip_label_prefix(text))

\* parse.py:18-20   "СТАЖ"
DRIVING_MARKERS == { <<1057, 1058, 1040, 1046>> }

\* parse.py:278-280
_has_driving_marker(text) == \E marker \in DRIVING_MARKERS : Contains(Upper(text), marker)

\* parse.py:21-35
STOPWORDS ==
    { <<1042, 1054, 1044, 1048, 1058, 1045, 1051>>,          \* ВОДИТЕЛ
      <<1059, 1044, 1054, 1057, 1058, 1054, 1042>>,          \* УДОСТОВ
      <<1056, 1045, 1057, 1055>>,                            \* РЕСП
      <<1054, 1041, 1051>>,                                  \* ОБЛ
      <<1050, 1056, 1040, 1049>>,                            \* КРАЙ
      <<1043, 1048, 1041, 1044, 1044>>,                      \* ГИБДД
      <<1056, 1054, 1057, 1057>>,                            \* РОСС
      <<1060, 1045, 1044, 1045, 1056>>,                      \* ФЕДЕР
      <<68, 82, 73, 86, 73, 78, 71>>,                        \* DRIVING
      <<76, 73, 67, 69, 78, 67, 69>>,                        \* LICENCE
      <<76, 73, 67, 69, 78, 83, 69>>,                        \* LICENSE
      <<80, 69, 82, 77, 73, 83>>,                            \* PERMIS
      <<82, 85, 83>> }                                       \* RUS

HasStopword(upper) == \E word \in STOPWORDS : Contains(upper, word)

\* parse.py:283-300; the ratio in thousandths
_name_quality(text) ==
    LET c1 == Listed([i \in 1..Len(text) |-> IF NameChar(text[i]) THEN text[i] ELSE 32])
        cleaned == Strip(CollapseSpace(c1))
        letters == SelectSeq(cleaned, LAMBDA c : IsLatin(c) \/ c \in 1040..1103
                                                  \/ c = 1025 \/ c = 1105)
        cyrillic == SelectSeq(letters, CYRILLIC_RE)
    IN IF text = <<>> \/ cleaned = <<>> THEN 0
       ELSE IF HasDigit(cleaned) THEN 0
       ELSE IF HasStopword(Upper(cleaned)) THEN 0
       ELSE IF letters = <<>> THEN 0
       ELSE Round3(1000 * Len(cyrillic), Len(letters))

----------------------------------------------------------------------------
(* parse.py: the field parsers *)

ISSUER_MARKERS ==
    { <<1043, 1048, 1041, 1044, 1044>>,      \* ГИБДД
      <<1052, 1056, 1069, 1054>> }           \* МРЭО

EmptyDict == [k \in {} |-> None]

\* len(text.split())
WordCount(text) == Len(Split(text))

\* FrontName that takes the joined parts whenever there is one, else the line
FrontName_partsfirst(rois) ==
    LET cleaned(key) == _apply_name_dictionary(_clean_name_line(_roi_text(rois, key)))
        pick(name_parts, full_name_line) ==
            IF name_parts # <<>>
            THEN <<Str(Join(name_parts, <<32>>)),
                   _avg_conf(<<_roi_conf(rois, "surname"), _roi_conf(rois, "name"),
                               _roi_conf(rois, "patronymic")>>)>>
            ELSE IF full_name_line # <<>>
                 THEN <<Str(full_name_line), _roi_conf(rois, "full_name_line")>>
            ELSE <<None, 0>>
    IN pick(SelectSeq(<<cleaned("surname"), cleaned("name"), cleaned("patronymic")>>,
                      LAMBDA part : part # <<>>),
            cleaned("full_name_line"))

\* parse.py:303-340, the name part of parse_front: <<full_name, name_conf>>
FrontName(rois) ==
    LET cleaned(key) == _apply_name_dictionary(_clean_name_line(_roi_text(rois, key)))
        no_digits(patronymic) == IF HasDigit(patronymic) THEN <<>> ELSE patronymic
        parts_conf == _avg_conf(<<_roi_conf(rois, "surname"), _roi_conf(rois, "name"),
                                  _roi_conf(rois, "patronymic")>>)
        line_conf == _roi_conf(rois, "full_name_line")
        joined(name_parts) == Join(name_parts, <<32>>)
        pick(surname, name_parts, parts_name, full_name_line) ==
            IF full_name_line # <<>>
            THEN IF name_parts = <<>> THEN <<Str(full_name_line), line_conf>>
                 ELSE IF surname = <<>> /\ WordCount(full_name_line) >= WordCount(parts_name)
                      THEN <<Str(full_name_line), line_conf>>
                 ELSE IF WordCount(full_name_line) > WordCount(parts_name)
                      THEN <<Str(full_name_line), line_conf>>
                 ELSE IF _name_quality(full_name_line) > _name_quality(parts_name) + 100
                      THEN <<Str(full_name_line), line_conf>>
                 ELSE <<Str(parts_name), parts_conf>>
            ELSE IF name_parts = <<>> THEN <<None, 0>> ELSE <<Str(parts_name), parts_conf>>
        parts(surname, name, patronymic, full_name_line) ==
            pick(surname,
                 SelectSeq(<<surname, name, patronymic>>, LAMBDA part : part # <<>>),
                 joined(SelectSeq(<<surname, name, patronymic>>, LAMBDA part : part # <<>>)),
                 full_name_line)
    IN parts(cleaned("surname"), cleaned("name"), no_digits(cleaned("patronymic")),
             cleaned("full_name_line"))

\* parse.py:350-357: <<license_issued_by, license_issued_by_conf>>
FrontIssuer(rois) ==
    LET cleaned == _clean_issuer_line(_roi_text(rois, "license_issued_by"))
    IN IF cleaned = <<>> THEN <<None, _roi_conf(rois, "license_issued_by")>>
       ELSE IF ~\E marker \in ISSUER_MARKERS : Contains(Upper(cleaned), marker)
            THEN <<None, 0>>
       ELSE <<Str(cleaned), _roi_conf(rois, "license_issued_by")>>

\* parse.py:359-369: <<driving_since, driving_conf>>
FrontDrivingSince(rois, birth_date, context_text) ==
    LET driving_conf == _roi_conf(rois, "driving_since")
        checked(driving_since, valid_until) ==
            IF ~Truthy(driving_since) THEN <<driving_since, driving_conf>>
            ELSE IF Truthy(birth_date) /\ StrLE(driving_since[2], birth_date[2])
                 THEN <<None, 0>>
            ELSE IF context_text # <<>> /\ Truthy(valid_until)
                    /\ StrLE(valid_until[2], driving_since[2])
                 THEN <<None, 0>>
            ELSE <<driving_since, driving_conf>>
    IN checked(normalize_date(_strip_label_prefix(_roi_text(rois, "driving_since"))),
               _extract_marker_date(context_text, { <<52, 66>> }))     \* "4B"

\* parse.py:303-377
parse_front(rois, context_text) ==
    LET license_number ==
            normalize_license_number(_strip_label_prefix(_roi_text(rois, "license_number")))
        parsed(birth_date) ==
            [full_name |-> FrontName(rois),
             birth_date |-> <<birth_date, _roi_conf(rois, "birth_date")>>,
             license_number |-> <<license_number, _roi_conf(rois, "license_number")>>,
             license_issued_by |-> FrontIssuer(rois),
             driving_since |-> FrontDrivingSince(rois, birth_date, context_text)]
    IN parsed(normalize_date(_strip_label_prefix(_roi_text(rois, "birth_date"))))

\* parse.py:380-393
parse_back(rois) ==
    LET categories_text ==
            IF _roi_text(rois, "categories") # <<>> THEN _roi_text(rois, "categories")
            ELSE _roi_text(rois, "raw_text")
        categories_conf ==
            IF _roi_conf(rois, "categories") # 0 THEN _roi_conf(rois, "categories")
            ELSE _roi_conf(rois, "raw_text")
        special_marks == _roi_text(rois, "special_marks")
    IN  [categories |-> <<parse_categories(categories_text), categories_conf>>,
         special_marks |-> <<IF special_marks = <<>> THEN None ELSE Str(special_marks),
                             _roi_conf(rois, "special_marks")>>]

\* parse.py:403-411
_is_name_line(line) ==
    /\ HasCyrillic(_clean_name_line(line))
    /\ ~HasDigit(line)
    /\ ~HasStopword(Upper(line))

\* parse.py:413-427: the full name read from the lines of the whole-image text
TextName(lines) ==
    LET cleaned(named) ==
            SelectSeq(Listed([i \in 1..Len(named) |-> _clean_name_line(named[i])]),
                      LAMBDA c : c # <<>>)
        joined(name_candidates) ==
            IF Len(name_candidates) >= 2
            THEN Str(_apply_name_dictionary(
                         Join(SubSeq(name_candidates, 1, IF Len(name_candidates) < 3
                                                         THEN Len(name_candidates) ELSE 3),
                              <<32>>)))
            ELSE IF name_candidates # <<>> THEN Str(_apply_name_dictionary(name_candidates[1]))
            ELSE None
    IN joined(Dedup(cleaned(SelectSeq(lines, _is_name_line))))

\* parse.py:429-434: min() of the dates found in the lines
TextBirthDate(lines) ==
    LET dates == {normalize_date(lines[i])[2] : i \in 1..Len(lines)} \ {<<>>}
    IN IF dates = {} THEN None
       ELSE Str(CHOOSE d \in dates : \A e \in dates : StrLE(d, e))

\* TextDrivingSince without the marker test: the latest date of the lines
TextDrivingSince_anydate(raw_text, lines) ==
    LET dates == {normalize_date(lines[i])[2] : i \in 1..Len(lines)} \ {<<>>}
    IN IF dates = {} THEN None
       ELSE Str(CHOOSE d \in dates : \A e \in dates : StrLE(e, d))

\* parse.py:436-443
TextDrivingSince(raw_text, lines) ==
    LET marked == {idx \in 1..Len(lines) : _has_driving_marker(lines[idx])}
    IN IF ~_has_driving_marker(raw_text) \/ marked = {} THEN None
       ELSE LET idx == CHOOSE k \in marked : \A m \in marked : k <= m
                driving_since == normalize_date(lines[idx])
            IN IF ~Truthy(driving_since) /\ idx + 1 <= Len(lines)
               THEN normalize_date(lines[idx + 1])
               ELSE driving_since

\* re.search(r"\b\d{2}\s?\d{2}\s?\d{6}\b", s) tried at offset i: the offset after the
\* match, or 0 if there is none
LicenseMatchEnd(s, i) ==
    LET digitsAt(p, n) == p + n <= Len(s) /\ \A j \in 1..n : IsDigit(s[p + j])
        skip(p) == IF p + 1 <= Len(s) /\ IsSpace(s[p + 1]) THEN p + 1 ELSE p
        p1 == skip(i + 2)
        p2 == skip(p1 + 2)
    IN IF /\ WordBoundary(s, i)
          /\ digitsAt(i, 2)
          /\ digitsAt(p1, 2)
          /\ digitsAt(p2, 6)
          /\ WordBoundary(s, p2 + 6)
       THEN p2 + 6 ELSE 0

\* parse.py:445-452
TextLicenseNumber(raw_text) ==
    LET matchAt == {i \in 0..Len(raw_text) : LicenseMatchEnd(raw_text, i) # 0}
        longAt == {i \in 0..(Len(raw_text) - 10) :
                       \A j \in 1..10 : IsDigit(raw_text[i + j])}
    IN IF matchAt # {}
       THEN LET i == CHOOSE k \in matchAt : \A m \in matchAt : k <= m
            IN normalize_license_number(SubSeq(raw_text, i + 1, LicenseMatchEnd(raw_text, i)))
       ELSE IF longAt # {}
       THEN LET i == CHOOSE k \in longAt : \A m \in longAt : k <= m
                rest == SubSeq(raw_text, i + 1, Len(raw_text))
            IN normalize_license_number(SubSeq(rest, 1, DigitRun(rest, Len(rest))))
       ELSE None

\* parse.py:454-459
TextIssuer(lines) ==
    LET marked == {i \in 1..Len(lines) :
                       \E marker \in ISSUER_MARKERS : Contains(Upper(lines[i]), marker)}
        good == {i \in marked : _clean_issuer_line(lines[i]) # <<>>}
    IN IF marked = {} THEN None
       ELSE IF good = {} THEN Str(<<>>)
       ELSE Str(_clean_issuer_line(lines[CHOOSE k \in good : \A m \in good : k <= m]))

Min(a, b) == IF a < b THEN a ELSE b
Max(a, b) == IF a > b THEN a ELSE b

\* parse.py:461 without the bounds of parse.py:462
FallbackBase_unclamped(base_conf) == IF base_conf = 0 THEN 550 ELSE base_conf

\* parse.py:461-462
FallbackBase(base_conf) == Max(400, Min(IF base_conf = 0 THEN 550 ELSE base_conf, 850))

\* parse.py:396-474
parse_front_from_text(raw_text, base_conf) ==
    IF raw_text = <<>> THEN EmptyDict
    ELSE
    LET lines == NormLines(raw_text)
        base == FallbackBase(base_conf)
        name_conf == Round3(base * 85, 100)
        date_conf == Round3(base * 80, 100)
        license_conf == Round3(base * 90, 100)
        issued_conf == Round3(base * 75, 100)
    IN  [full_name |-> <<TextName(lines), name_conf>>,
         birth_date |-> <<TextBirthDate(lines), date_conf>>,
         license_number |-> <<TextLicenseNumber(raw_text), license_conf>>,
         license_issued_by |-> <<TextIssuer(lines), issued_conf>>,
         driving_since |-> <<TextDrivingSince(raw_text, lines), date_conf>>]

\* parse.py:14
REQUIRED_FIELDS == {"full_name", "birth_date", "license_number"}

\* parse.py:477   min_confidence: float = 0.75
MIN_CONFIDENCE == 750

\* determine_status with the confidences left out of the status
determine_status_noconf(fields, required_fields, min_confidence) ==
    LET value(name) == IF name \in DOMAIN fields THEN fields[name].value ELSE None
        conf(name) == IF name \in DOMAIN fields THEN fields[name].confidence ELSE 0
        missing == {name \in required_fields : _is_missing_value(value(name))}
        low_conf == {name \in required_fields \ missing : conf(name) < min_confidence}
    IN <<IF missing # {} THEN "partial" ELSE "ok", missing, low_conf>>

\* determine_status with conf <= min_confidence for conf < min_confidence
determine_status_le(fields, required_fields, min_confidence) ==
    LET value(name) == IF name \in DOMAIN fields THEN fields[name].value ELSE None
        conf(name) == IF name \in DOMAIN fields THEN fields[name].confidence ELSE 0
        missing == {name \in required_fields : _is_missing_value(value(name))}
        low_conf == {name \in required_fields \ missing : conf(name) <= min_confidence}
    IN <<IF missing # {} \/ low_conf # {} THEN "partial" ELSE "ok", missing, low_conf>>

\* parse.py:477-495: <<status, missing, low_conf>>; the two lists as sets, their order
\* being the iteration order of the set required_fields
determine_status(fields, required_fields, min_confidence) ==
    LET value(name) == IF name \in DOMAIN fields THEN fields[name].value ELSE None
        conf(name) == IF name \in DOMAIN fields THEN fields[name].confidence ELSE 0
        missing == {name \in required_fields : _is_missing_value(value(name))}
        low_conf == {name \in required_fields \ missing : conf(name) < min_confidence}
    IN <<IF missing # {} \/ low_conf # {} THEN "partial" ELSE "ok", missing, low_conf>>

----------------------------------------------------------------------------
(* schema.py *)

\* schema.py:7-15, the keys of FIELD_DEFAULTS in their order
FIELD_NAMES ==
    <<"full_name", "birth_date", "license_number", "license_issued_by", "driving_since",
      "categories", "special_marks">>

FieldSet == {FIELD_NAMES[i] : i \in 1..Len(FIELD_NAMES)}

\* FIELD_DEFAULTS with None for the default of categories
FIELD_DEFAULTS_none(name) == None

\* schema.py:7-15
FIELD_DEFAULTS(name) == IF name = "categories" THEN List(<<>>) ELSE None

\* build_fields that gives entries to the parsed fields only
build_fields_sparse(parsed) ==
    [name \in FieldSet \cap DOMAIN parsed |->
        [value |-> parsed[name][1], confidence |-> parsed[name][2]]]

\* schema.py:18-29
build_fields(parsed) ==
    [name \in FieldSet |->
        LET pair == IF name \in DOMAIN parsed THEN parsed[name]
                    ELSE <<FIELD_DEFAULTS(name), 0>>
            value == IF /\ pair[1][1] \in {"none", "str"}
                        /\ pair[1][2] = <<>>
                        /\ FIELD_DEFAULTS(name)[1] = "list"
                     THEN List(<<>>) ELSE pair[1]
        IN [value |-> value, confidence |-> pair[2]]]

\* schema.py:32-51 (request_id, document_type and debug are left out)
build_response(status, fields, missing_fields, warnings_list, images_list) ==
    [status |-> status, fields |-> fields, missing_fields |-> missing_fields,
     warnings |-> warnings_list, images |-> images_list]

\* schema.py:54-72
build_failure(reason, warnings_list, images_list) ==
    build_response("failed", build_fields(EmptyDict), FIELD_NAMES,
                   Append(warnings_list, reason), images_list)

----------------------------------------------------------------------------
(* pipeline.py: helpers of extract *)

\* _merge_parsed as dict.update: a present fallback value wins
_merge_parsed_update(primary, fallback) ==
    LET fills(key) == key \in DOMAIN fallback /\ ~_is_missing_value(fallback[key][1])
    IN [key \in DOMAIN primary \cup {k \in DOMAIN fallback : fills(k)} |->
            IF fills(key) THEN fallback[key] ELSE primary[key]]

\* pipeline.py:284-293
_merge_parsed(primary, fallback) ==
    LET fills(key) == /\ key \in DOMAIN fallback
                      /\ ~_is_missing_value(fallback[key][1])
                      /\ (key \notin DOMAIN primary \/ _is_missing_value(primary[key][1]))
    IN [key \in DOMAIN primary \cup {k \in DOMAIN fallback : fills(k)} |->
            IF fills(key) THEN fallback[key] ELSE primary[key]]

\* rois.py:18-28 and 62-66: the order in which _ocr_rois fills its result
ROI_ORDER ==
    <<"surname", "name", "patronymic", "full_name_line", "birth_date", "license_number",
      "license_issued_by", "driving_since", "categories", "special_marks", "raw_text">>

\* pipeline.py:296-302
_collect_raw_text(rois) ==
    LET present == SelectSeq(ROI_ORDER, LAMBDA k : k \in DOMAIN rois /\ Strip(rois[k].text) # <<>>)
    IN Join(Listed([i \in 1..Len(present) |-> Strip(rois[present[i]].text)]), <<10>>)

\* "\n".join(filter(None, parts))
JoinLines(parts) == Join(SelectSeq(parts, LAMBDA t : t # <<>>), <<10>>)

\* a warning: its text and, for the low-confidence warning, the fields it lists
Warn(text) == <<text, {}>>

Capitalized(side) == IF side = "front" THEN "Front" ELSE "Back"

WarnMissing(side) ==
    IF side = "front" THEN Warn("Front image missing.") ELSE Warn("Back image missing.")

WarnUndecodable(side) ==
    IF side = "front" THEN Warn("Front image could not be decoded.")
    ELSE Warn("Back image could not be decoded.")

WarnStore(side) ==
    IF side = "front" THEN Warn("Failed to store front image")
    ELSE Warn("Failed to store back image")

WarnResize(side) ==
    IF side = "front" THEN Warn("Front contour not detected; used resize fallback.")
    ELSE Warn("Back contour not detected; used resize fallback.")

----------------------------------------------------------------------------
(* What the recognition engine can return: region results and whole-image text *)

\* 'ИВАНОВ'
TXT_SURNAME ==
    <<1048, 1042, 1040, 1053, 1054, 1042>>

\* 'ИВАН'
TXT_NAME ==
    <<1048, 1042, 1040, 1053>>

\* 'ИВАНОВ ИВАН'
TXT_NAME_LINE ==
    <<1048, 1042, 1040, 1053, 1054, 1042, 32, 1048, 1042, 1040, 1053>>

\* '3. 12.05.1990'
TXT_BIRTH_LABELLED ==
    <<51, 46, 32, 49, 50, 46, 48, 53, 46, 49, 57, 57, 48>>

\* '12.05.1990'
TXT_BIRTH_BARE ==
    <<49, 50, 46, 48, 53, 46, 49, 57, 57, 48>>

\* '5. 1234567890'
TXT_LICENSE_LABELLED ==
    <<53, 46, 32, 49, 50, 51, 52, 53, 54, 55, 56, 57, 48>>

\* '12 34 567890'
TXT_LICENSE_BARE ==
    <<49, 50, 32, 51, 52, 32, 53, 54, 55, 56, 57, 48>>

\* 'ГИБДД 7701'
TXT_ISSUER ==
    <<1043, 1048, 1041, 1044, 1044, 32, 55, 55, 48, 49>>

\* '4a) 01.06.2010'
TXT_SINCE_LABELLED ==
    <<52, 97, 41, 32, 48, 49, 46, 48, 54, 46, 50, 48, 49, 48>>

\* '4a) 01.06.1980'
TXT_SINCE_EARLY ==
    <<52, 97, 41, 32, 48, 49, 46, 48, 54, 46, 49, 57, 56, 48>>

\* '4a) 01.06.2010 4b) 01.06.2020'
TXT_SINCE_UNTIL ==
    <<52, 97, 41, 32, 48, 49, 46, 48, 54, 46, 50, 48, 49, 48, 32, 52, 98, 41, 32, 48,
      49, 46, 48, 54, 46, 50, 48, 50, 48>>

\* 'B B1'
TXT_CATEGORIES ==
    <<66, 32, 66, 49>>

\* 'AS'
TXT_MARKS ==
    <<65, 83>>

\* 'Категории: b, c1'
TXT_BACK_RAW ==
    <<1050, 1072, 1090, 1077, 1075, 1086, 1088, 1080, 1080, 58, 32, 98, 44, 32, 99, 49>>

\* 'ИВАНОВ\nИВАН\n12.05.1990\n12 34 567890'
TXT_FULL_PLAIN ==
    <<1048, 1042, 1040, 1053, 1054, 1042, 10, 1048, 1042, 1040, 1053, 10, 49, 50, 46,
      48, 53, 46, 49, 57, 57, 48, 10, 49, 50, 32, 51, 52, 32, 53, 54, 55, 56, 57, 48>>

\* '4b) 01.01.2005\n12 34 567890'
TXT_FULL_UNTIL ==
    <<52, 98, 41, 32, 48, 49, 46, 48, 49, 46, 50, 48, 48, 53, 10, 49, 50, 32, 51, 52,
      32, 53, 54, 55, 56, 57, 48>>

\* '12.05.1990\nСТАЖ С 01.06.2008\n1234567890'
TXT_FULL_STAZH ==
    <<49, 50, 46, 48, 53, 46, 49, 57, 57, 48, 10, 1057, 1058, 1040, 1046, 32, 1057, 32,
      48, 49, 46, 48, 54, 46, 50, 48, 48, 56, 10, 49, 50, 51, 52, 53, 54, 55, 56, 57,
      48>>

\* 'ПЕТРОВ\n4b) 01.01.2005\nСТАЖ 01.06.2008'
TXT_FULL_UNTIL_STAZH ==
    <<1055, 1045, 1058, 1056, 1054, 1042, 10, 52, 98, 41, 32, 48, 49, 46, 48, 49, 46,
      50, 48, 48, 53, 10, 1057, 1058, 1040, 1046, 32, 48, 49, 46, 48, 54, 46, 50, 48,
      48, 56>>

\* 'СТАЖ 01.06.1980\n12.05.1990\nГИБДД 7701'
TXT_FULL_STAZH_EARLY ==
    <<1057, 1058, 1040, 1046, 32, 48, 49, 46, 48, 54, 46, 49, 57, 56, 48, 10, 49, 50,
      46, 48, 53, 46, 49, 57, 57, 48, 10, 1043, 1048, 1041, 1044, 1044, 32, 55, 55, 48,
      49>>

\* 'RUS\n?'
TXT_FULL_NOISE ==
    <<82, 85, 83, 10, 63>>

Roi(text, confidence) == [text |-> text, confidence |-> confidence]

\* a result of _ocr_rois for the eight front regions
FrontRois(surname, name, line, birth, license, issuer, since, confidence) ==
    [surname |-> Roi(surname, IF surname = <<>> THEN 0 ELSE confidence),
     name |-> Roi(name, IF name = <<>> THEN 0 ELSE confidence),
     patronymic |-> Roi(<<>>, 0),
     full_name_line |-> Roi(line, IF line = <<>> THEN 0 ELSE confidence),
     birth_date |-> Roi(birth, IF birth = <<>> THEN 0 ELSE confidence),
     license_number |-> Roi(license, IF license = <<>> THEN 0 ELSE confidence),
     license_issued_by |-> Roi(issuer, IF issuer = <<>> THEN 0 ELSE confidence),
     driving_since |-> Roi(since, IF since = <<>> THEN 0 ELSE confidence)]

\* a result of _ocr_rois for the three back regions
BackRois(categories, marks, raw, confidence) ==
    [categories |-> Roi(categories, IF categories = <<>> THEN 0 ELSE confidence),
     special_marks |-> Roi(marks, IF marks = <<>> THEN 0 ELSE confidence),
     raw_text |-> Roi(raw, IF raw = <<>> THEN 0 ELSE confidence)]

FRONT_SCENARIOS ==
    << FrontRois(<<>>, <<>>, <<>>, <<>>, <<>>, <<>>, <<>>, 0),
       FrontRois(TXT_SURNAME, TXT_NAME, TXT_NAME_LINE, TXT_BIRTH_LABELLED,
                 TXT_LICENSE_LABELLED, TXT_ISSUER, TXT_SINCE_LABELLED, 900),
       FrontRois(TXT_SURNAME, TXT_NAME, <<>>, TXT_BIRTH_BARE,
                 TXT_LICENSE_BARE, <<>>, TXT_SINCE_LABELLED, 900),
       FrontRois(TXT_SURNAME, TXT_NAME, <<>>, TXT_BIRTH_LABELLED,
                 TXT_LICENSE_LABELLED, <<>>, <<>>, 600),
       FrontRois(<<>>, TXT_NAME, TXT_NAME_LINE, TXT_BIRTH_LABELLED,
                 <<>>, TXT_ISSUER, TXT_SINCE_EARLY, 750),
       FrontRois(TXT_SURNAME, <<>>, <<>>, TXT_BIRTH_LABELLED,
                 TXT_LICENSE_BARE, <<>>, TXT_SINCE_UNTIL, 900),
       FrontRois(<<>>, <<>>, <<>>, <<>>, <<>>, <<>>, TXT_SINCE_LABELLED, 800),
       FrontRois(TXT_SURNAME, TXT_NAME, <<>>, TXT_BIRTH_LABELLED,
                 TXT_LICENSE_LABELLED, <<>>, TXT_SINCE_LABELLED, 749) >>

BACK_SCENARIOS ==
    << BackRois(<<>>, <<>>, <<>>, 0),
       BackRois(TXT_CATEGORIES, TXT_MARKS, TXT_BACK_RAW, 900),
       BackRois(<<>>, <<>>, TXT_BACK_RAW, 600) >>

\* results of _ocr_full_image (pipeline.py:305-325): <<best_text, best_conf>>
FALLBACK_TEXTS ==
    << TXT_FULL_PLAIN, TXT_FULL_UNTIL, TXT_FULL_STAZH, TXT_FULL_UNTIL_STAZH,
       TXT_FULL_STAZH_EARLY, TXT_FULL_NOISE >>

FALLBACK_CONFS == {0, 600, 840, 1000}

\* how many of the scenarios and texts above the model explores
NumFrontScenarios == 7
NumBackScenarios == 2
NumFallbackTexts == 5

Prefix(list, n) == SubSeq(list, 1, Min(n, Len(list)))
Elements(list) == {list[i] : i \in 1..Len(list)}

\* what _ocr_rois and _ocr_full_image can return.  Without PaddleOCR every call of
\* run_ocr raises in _require_paddle (ocr_engine.py:33-36, 55, 121) and is caught
\* (pipeline.py:239-243, 267-271, 311-315): every region is empty, and so is the full text
FrontSamples ==
    IF PaddleOCR THEN Elements(Prefix(FRONT_SCENARIOS, NumFrontScenarios))
    ELSE {FrontRois(<<>>, <<>>, <<>>, <<>>, <<>>, <<>>, <<>>, 0)}
BackSamples ==
    IF PaddleOCR THEN Elements(Prefix(BACK_SCENARIOS, NumBackScenarios))
    ELSE {BackRois(<<>>, <<>>, <<>>, 0)}
FallbackSamples ==
    IF PaddleOCR
    THEN {<<<<>>, 0>>} \cup (Elements(Prefix(FALLBACK_TEXTS, NumFallbackTexts)) \X FALLBACK_CONFS)
    ELSE {<<<<>>, 0>>}

----------------------------------------------------------------------------
(* pipeline.py: extract(front_bytes, back_bytes) *)

\* an argument of extract: None, b"", bytes no decoder accepts, bytes of an image
BYTES == {"none", "empty", "garbage", "image"}

\* "data is not None" for the truthiness of data
Supplied_notnone(data) == data # "none"

\* Python truthiness of a bytes argument
Supplied(data) == data \in {"garbage", "image"}

NoResponse == [status |-> "none"]

\* alignment tags of pipeline.py:564-572
ALIGNMENTS == {"keypoints", "contour", "resize"}

\* _process_side without the warning of an image that cannot be decoded
_process_side_silent(side, data, rois_samples, allow_missing) ==
    IF ~Supplied(data)
    THEN {[kind |-> "return",
           warnings |-> IF allow_missing THEN <<>> ELSE <<WarnMissing(side)>>,
           images |-> <<>>, rois |-> EmptyDict, variants |-> FALSE, calls |-> {}]}
    ELSE IF ~cv2_available
    THEN \* _decode_image (pipeline.py:185-211) or _limit_size raises: np / cv2 is None
         {[kind |-> "RuntimeError", warnings |-> <<>>, images |-> <<>>, rois |-> EmptyDict,
           variants |-> FALSE, calls |-> {<<"decode", side>>}]}
    ELSE IF data = "garbage"
    THEN {[kind |-> "return", warnings |-> <<>>, images |-> <<>>,
           rois |-> EmptyDict, variants |-> FALSE, calls |-> {<<"decode", side>>}]}
    ELSE LET stored == {[role |-> side, stored |-> ok] : ok \in BOOLEAN}
             storeWarn(img) == IF img.stored THEN <<>> ELSE <<WarnStore(side)>>
             alignWarn(tag) == IF tag = "resize" THEN <<WarnResize(side)>> ELSE <<>>
             done == {<<"decode", side>>, <<"store", side>>, <<"align", side>>}
         IN {[kind |-> "return",
              warnings |-> storeWarn(img) \o alignWarn(tag),
              images |-> <<img>>, rois |-> rois, variants |-> TRUE,
              calls |-> done \cup {<<"ocr", side>>}] :
                 img \in stored, tag \in ALIGNMENTS, rois \in rois_samples}
            \cup
            \* an exception of a collaborator that _process_side does not catch
            {[kind |-> "Exception", warnings |-> <<>>, images |-> <<>>, rois |-> EmptyDict,
              variants |-> FALSE, calls |-> done]}

\* pipeline.py:549-589: what one call of _process_side can do.  A returned outcome has
\* the warnings and images it appended and the regions it read; an outcome of kind
\* RuntimeError or Exception is an exception leaving _process_side.
_process_side(side, data, rois_samples, allow_missing) ==
    IF ~Supplied(data)
    THEN {[kind |-> "return",
           warnings |-> IF allow_missing THEN <<>> ELSE <<WarnMissing(side)>>,
           images |-> <<>>, rois |-> EmptyDict, variants |-> FALSE, calls |-> {}]}
    ELSE IF ~cv2_available
    THEN \* _decode_image (pipeline.py:185-211) or _limit_size raises: np / cv2 is None
         {[kind |-> "RuntimeError", warnings |-> <<>>, images |-> <<>>, rois |-> EmptyDict,
           variants |-> FALSE, calls |-> {<<"decode", side>>}]}
    ELSE IF data = "garbage"
    THEN {[kind |-> "return", warnings |-> <<WarnUndecodable(side)>>, images |-> <<>>,
           rois |-> EmptyDict, variants |-> FALSE, calls |-> {<<"decode", side>>}]}
    ELSE LET stored == {[role |-> side, stored |-> ok] : ok \in BOOLEAN}
             storeWarn(img) == IF img.stored THEN <<>> ELSE <<WarnStore(side)>>
             alignWarn(tag) == IF tag = "resize" THEN <<WarnResize(side)>> ELSE <<>>
             done == {<<"decode", side>>, <<"store", side>>, <<"align", side>>}
         IN {[kind |-> "return",
              warnings |-> storeWarn(img) \o alignWarn(tag),
              images |-> <<img>>, rois |-> rois, variants |-> TRUE,
              calls |-> done \cup {<<"ocr", side>>}] :
                 img \in stored, tag \in ALIGNMENTS, rois \in rois_samples}
            \cup
            \* an exception of a collaborator that _process_side does not catch
            {[kind |-> "Exception", warnings |-> <<>>, images |-> <<>>, rois |-> EmptyDict,
              variants |-> FALSE, calls |-> done]}

\* str(exc) of pipeline.py:600 and the message of pipeline.py:603
Reason(kind) ==
    IF kind = "RuntimeError" THEN Warn("OpenCV and numpy are required for OCR pipeline.")
    ELSE Warn("OCR pipeline failed")

\* pipeline.py:543-544
NoImages ==
    /\ pc = "start"
    /\ ~Supplied(front_bytes) /\ ~Supplied(back_bytes)
    /\ response' = build_failure(Warn("No images provided."), <<>>, <<>>)
    /\ pc' = "done"
    /\ UNCHANGED <<align_vars, engine_vars, step_vars, roi_vars, dict_vars, cv2_available, strftime_pads_year, front_bytes, back_bytes, warnings,
                   images, front_rois, back_rois, front_processed_variants, front_roi_text,
                   back_roi_text, front_context_text, parsed_front, region_parsed,
                   fallback_text, fallback_conf, calls, raised, status_fields,
                   status_result,
                   call_arg, call_result, call_again>>

\* pipeline.py:591-594 with the handlers of 598-603
ProcessFront ==
    /\ pc = "start"
    /\ Supplied(front_bytes) \/ Supplied(back_bytes)
    /\ \E o \in _process_side("front", front_bytes, FrontSamples, FALSE) :
          /\ calls' = calls \cup o.calls
          /\ IF o.kind = "return"
             THEN /\ warnings' = warnings \o o.warnings
                  /\ images' = images \o o.images
                  /\ front_rois' = o.rois
                  /\ front_processed_variants' = o.variants
                  /\ front_roi_text' = _collect_raw_text(o.rois)
                  /\ pc' = "back"
                  /\ UNCHANGED <<raised, response>>
             ELSE /\ raised' = o.kind
                  /\ response' = build_failure(Reason(o.kind), <<>>, <<>>)
                  /\ pc' = "done"
                  /\ UNCHANGED <<warnings, images, front_rois, front_processed_variants,
                                 front_roi_text>>
    /\ UNCHANGED <<align_vars, engine_vars, step_vars, roi_vars, dict_vars, cv2_available, strftime_pads_year, front_bytes, back_bytes, back_rois,
                   back_roi_text, front_context_text, parsed_front, region_parsed,
                   fallback_text, fallback_conf, status_fields, status_result,
                   call_arg, call_result, call_again>>

\* pipeline.py:595-597 with the handlers of 598-603
ProcessBack ==
    /\ pc = "back"
    /\ \E o \in _process_side("back", back_bytes, BackSamples, Supplied(front_bytes)) :
          /\ calls' = calls \cup o.calls
          /\ IF o.kind = "return"
             THEN /\ warnings' = warnings \o o.warnings
                  /\ images' = images \o o.images
                  /\ back_rois' = o.rois
                  /\ back_roi_text' = _collect_raw_text(o.rois)
                  /\ pc' = "parse"
                  /\ UNCHANGED <<raised, response>>
             ELSE /\ raised' = o.kind
                  /\ response' = build_failure(Reason(o.kind), <<>>, <<>>)
                  /\ pc' = "done"
                  /\ UNCHANGED <<warnings, images, back_rois, back_roi_text>>
    /\ UNCHANGED <<align_vars, engine_vars, step_vars, roi_vars, dict_vars, cv2_available, strftime_pads_year, front_bytes, back_bytes, front_rois,
                   front_processed_variants, front_roi_text, front_context_text,
                   parsed_front, region_parsed, fallback_text, fallback_conf,
                   status_fields, status_result,
                   call_arg, call_result, call_again>>

\* pipeline.py:609-613
MissingRequired(parsed) ==
    {name \in REQUIRED_FIELDS :
        _is_missing_value(IF name \in DOMAIN parsed THEN parsed[name][1] ELSE None)}

\* FallbackWanted with every field of the front parse for the required ones
FallbackWanted_anyfield(parsed) ==
    /\ front_processed_variants /\ Supplied(front_bytes)
    /\ (front_roi_text = <<>> \/ \E name \in DOMAIN parsed : _is_missing_value(parsed[name][1]))

\* pipeline.py:608 and 614: the fallback pass is to run
FallbackWanted(parsed) ==
    /\ front_processed_variants /\ Supplied(front_bytes)
    /\ (front_roi_text = <<>> \/ MissingRequired(parsed) # {})

\* pipeline.py:605-614: the region-based parse of the front side
ParseFront ==
    /\ pc = "parse"
    /\ front_context_text' = front_roi_text
    /\ parsed_front' = parse_front(front_rois, front_roi_text)
    /\ region_parsed' = parsed_front'
    /\ pc' = IF FallbackWanted(parsed_front') THEN "fallback" ELSE "assemble"
    /\ UNCHANGED <<align_vars, engine_vars, step_vars, roi_vars, dict_vars, cv2_available, strftime_pads_year, front_bytes, back_bytes, warnings,
                   images, front_rois, back_rois, front_processed_variants, front_roi_text,
                   back_roi_text, fallback_text, fallback_conf, calls, raised, response,
                   status_fields, status_result,
                   call_arg, call_result, call_again>>

\* pipeline.py:615-622
FallbackOcr ==
    /\ pc = "fallback"
    /\ \E result \in FallbackSamples :
          /\ fallback_text' = result[1]
          /\ fallback_conf' = result[2]
          /\ IF result[1] # <<>>
             THEN /\ front_context_text' = JoinLines(<<front_context_text, result[1]>>)
                  /\ parsed_front' =
                         _merge_parsed(parse_front(front_rois, front_context_text'),
                                       parse_front_from_text(result[1], result[2]))
                  /\ warnings' = Append(warnings, Warn("Front fallback OCR used."))
             ELSE UNCHANGED <<front_context_text, parsed_front, warnings>>
    /\ calls' = calls \cup {<<"ocr_full", "front">>}
    /\ pc' = "assemble"
    /\ UNCHANGED <<align_vars, engine_vars, step_vars, roi_vars, dict_vars, cv2_available, strftime_pads_year, front_bytes, back_bytes, images,
                   front_rois, back_rois, front_processed_variants, front_roi_text,
                   back_roi_text, region_parsed, raised, response, status_fields,
                   status_result,
                   call_arg, call_result, call_again>>

\* MissingFields with the required fields only
MissingFields_required(fields) ==
    SelectSeq(FIELD_NAMES,
              LAMBDA name : name \in REQUIRED_FIELDS /\ _is_missing_value(fields[name].value))

\* pipeline.py:639-641
MissingFields(fields) ==
    SelectSeq(FIELD_NAMES, LAMBDA name : _is_missing_value(fields[name].value))

\* Respond with status failed for a field map that lacks every required field
Respond_failempty(parsed, warnings_list, images_list) ==
    LET fields == build_fields(parsed)
        result == determine_status(fields, REQUIRED_FIELDS, MIN_CONFIDENCE)
        low_conf == result[3]
    IN build_response(IF result[2] = REQUIRED_FIELDS THEN "failed" ELSE result[1],
                      fields,
                      SelectSeq(FIELD_NAMES, LAMBDA name : _is_missing_value(fields[name].value)),
                      IF low_conf # {}
                      THEN Append(warnings_list, <<"Low confidence fields: ", low_conf>>)
                      ELSE warnings_list,
                      images_list)

\* pipeline.py:633-662
Respond(parsed, warnings_list, images_list) ==
    LET fields == build_fields(parsed)
        result == determine_status(fields, REQUIRED_FIELDS, MIN_CONFIDENCE)
        low_conf == result[3]
    IN build_response(result[1], fields, MissingFields(fields),
                      IF low_conf # {}
                      THEN Append(warnings_list, <<"Low confidence fields: ", low_conf>>)
                      ELSE warnings_list,
                      images_list)

\* pipeline.py:624-662
Assemble ==
    /\ pc = "assemble"
    /\ LET raw_text == Strip(JoinLines(<<front_context_text, back_roi_text>>))
       IN response' =
              IF raw_text = <<>>
              THEN build_failure(Warn("No text extracted from images."), warnings, images)
              ELSE Respond(parse_back(back_rois) @@ parsed_front, warnings, images)
    /\ pc' = "done"
    /\ UNCHANGED <<align_vars, engine_vars, step_vars, roi_vars, dict_vars, cv2_available, strftime_pads_year, front_bytes, back_bytes, warnings,
                   images, front_rois, back_rois, front_processed_variants, front_roi_text,
                   back_roi_text, front_context_text, parsed_front, region_parsed,
                   fallback_text, fallback_conf, calls, raised, status_fields,
                   status_result,
                   call_arg, call_result, call_again>>

\* the request threads of the process
NumThreads == 2
THREADS == 1..NumThreads

\* no alignment step is under way
AlignIdle ==
    /\ side_arg = "front" /\ image = <<>>
    /\ keypoint_settings = [model_path |-> <<>>, use_keypoints |-> None]
    /\ keypoint_outcome = "none" /\ warped = "none" /\ alignment = "none"

\* no thread asks for an engine and none is constructed
EngineUnused ==
    /\ _OCR_INSTANCE = <<"none", <<>>>> /\ _OCR_LOCK = 0
    /\ _MODEL = <<"none", <<>>>> /\ _MODEL_LOCK = 0
    /\ thread_pc = [t \in THREADS |-> "idle"]
    /\ thread_call = [t \in THREADS |-> <<"none", <<>>>>]
    /\ thread_results = [t \in THREADS |-> <<>>]
    /\ constructor_calls = <<>>

\* both engine classes are imported and no thread asks for an engine
EngineIdle == PaddleOCR = TRUE /\ YOLO = TRUE /\ EngineUnused

\* no step of _process_side after the alignment is under way
StepIdle ==
    /\ anchor_settings = [use_anchors |-> <<"none", <<>>>>, env_use_anchors |-> <<"none", <<>>>>]
    /\ boxes = <<"return", <<>>>> /\ template_texts = <<>>
    /\ anchors = [k \in {} |-> 0] /\ selected = <<>> /\ scoring_calls = 0

\* no call of _ocr_rois is under way
RoiIdle ==
    /\ processed_variants = 0 /\ rois_arg = <<>>
    /\ roi_index = 0 /\ variant_index = 0 /\ image_index = 0
    /\ best_candidate = <<>> /\ results = [k \in {} |-> 0]
    /\ ocr_calls = <<>> /\ ocr_texts = {} /\ first_pass = [k \in {} |-> 0]

\* the name dictionary is not loaded and no path is set
DictIdle ==
    /\ dictionary_global = <<"none", <<>>>>
    /\ dictionary_path = FALSE /\ file_readable = FALSE
    /\ load_data = <<>> /\ assignments = <<>>

\* the locals of extract at its entry (pipeline.py:538-547)
ExtractEntry ==
    /\ pc = "start"
    /\ warnings = <<>> /\ images = <<>>
    /\ front_rois = EmptyDict /\ back_rois = EmptyDict
    /\ front_processed_variants = FALSE
    /\ front_roi_text = <<>> /\ back_roi_text = <<>>
    /\ front_context_text = <<>>
    /\ parsed_front = EmptyDict /\ region_parsed = EmptyDict
    /\ fallback_text = <<>> /\ fallback_conf = 0
    /\ calls = {} /\ raised = "none"
    /\ response = NoResponse

\* a call of extract.  strftime_pads_year is that of glibc, whose %Y does not pad
Init ==
    /\ AlignIdle /\ StepIdle /\ RoiIdle /\ DictIdle
    /\ PaddleOCR \in BOOLEAN /\ YOLO = TRUE /\ EngineUnused
    /\ ExtractEntry
    /\ cv2_available \in BOOLEAN
    /\ strftime_pads_year = FALSE
    /\ front_bytes \in BYTES /\ back_bytes \in BYTES
    /\ status_fields = EmptyDict
    /\ status_result = <<"none", {}, {}>>
    /\ call_arg = None /\ call_result = None /\ call_again = None

Next == NoImages \/ ProcessFront \/ ProcessBack \/ ParseFront \/ FallbackOcr \/ Assemble

Spec == Init /\ [][Next]_vars

----------------------------------------------------------------------------
(* determine_status called on its own, as tests/test_ocr_parse.py:27-46 calls it *)

\* what a field map can hold for a field: no entry, or a value with a confidence
STATUS_VALUES == {None, Str(<<>>), Str(TXT_SURNAME)}
STATUS_CONFS == {0, 749, 750, 1000}
STATUS_ENTRIES ==
    {[absent |-> FALSE, value |-> v, confidence |-> c] :
        v \in STATUS_VALUES, c \in STATUS_CONFS}
    \cup {[absent |-> TRUE, value |-> None, confidence |-> 0]}

\* the field maps determine_status is called with
STATUS_FIELD_MAPS ==
    {[name \in {n \in REQUIRED_FIELDS : ~entry[n].absent} \cup {"categories"} |->
          IF name = "categories" THEN [value |-> categories, confidence |-> 0]
          ELSE [value |-> entry[name].value, confidence |-> entry[name].confidence]] :
       entry \in [REQUIRED_FIELDS -> STATUS_ENTRIES],
       categories \in {List(<<>>), List(<<TXT_MARKS>>)}}

StatusInit ==
    /\ AlignIdle /\ EngineIdle /\ StepIdle /\ RoiIdle /\ DictIdle
    /\ pc = "status"
    /\ cv2_available = TRUE /\ strftime_pads_year = FALSE
    /\ front_bytes = "none" /\ back_bytes = "none"
    /\ warnings = <<>> /\ images = <<>>
    /\ front_rois = EmptyDict /\ back_rois = EmptyDict
    /\ front_processed_variants = FALSE
    /\ front_roi_text = <<>> /\ back_roi_text = <<>>
    /\ front_context_text = <<>>
    /\ parsed_front = EmptyDict /\ region_parsed = EmptyDict
    /\ fallback_text = <<>> /\ fallback_conf = 0
    /\ calls = {} /\ raised = "none"
    /\ response = NoResponse
    /\ status_fields \in STATUS_FIELD_MAPS
    /\ status_result = <<"none", {}, {}>>
    /\ call_arg = None /\ call_result = None /\ call_again = None

\* parse.py:477-495 with the defaults of its signature
DetermineStatus ==
    /\ pc = "status"
    /\ status_result' = determine_status(status_fields, REQUIRED_FIELDS, MIN_CONFIDENCE)
    /\ pc' = "status_done"
    /\ UNCHANGED <<align_vars, engine_vars, step_vars, roi_vars, dict_vars, cv2_available, strftime_pads_year, front_bytes, back_bytes, warnings,
                   images, front_rois, back_rois, front_processed_variants, front_roi_text,
                   back_roi_text, front_context_text, parsed_front, region_parsed,
                   fallback_text, fallback_conf, calls, raised, response, status_fields,
                   call_arg, call_result, call_again>>

StatusNext == DetermineStatus

StatusSpec == StatusInit /\ [][StatusNext]_vars

----------------------------------------------------------------------------
(* The functions of parse.py called on their own, as tests/test_ocr_parse.py calls them *)

\* the numbers whose digits the sample dates are written with
DATE_DAYS == {0, 1, 12, 29, 31, 32}
DATE_MONTHS == {1, 2, 5, 12, 13}
DATE_YEARS == {5, 199, 1900, 1990, 2000, 2020, 2023}
DATE_SHORT_YEARS == {5, 29, 30, 99}

\* the separators of DD.MM.YYYY, DD-MM-YYYY and DD/MM/YYYY
DATE_SEPARATORS == {46, 45, 47}

\* day, month and year as they are written: with one or two, and two or four, digits
DayTexts == {Pad(d, 2) : d \in DATE_DAYS} \cup {Pad(1, 1)}
MonthTexts == {Pad(m, 2) : m \in DATE_MONTHS} \cup {Pad(2, 1)}
YearTexts == {Pad(y, 4) : y \in DATE_YEARS} \cup {Pad(y, 2) : y \in DATE_SHORT_YEARS}

DmyText(day, sep, month, year) == day \o <<sep>> \o month \o <<sep>> \o year
IsoText(year, month, day) == Pad(year, 4) \o <<45>> \o Pad(month, 2) \o <<45>> \o Pad(day, 2)

\* texts that hold no date, a date after a label, two dates, a date with commas
OTHER_DATE_TEXTS ==
    { TXT_SURNAME, TXT_LICENSE_BARE, TXT_SINCE_LABELLED, TXT_SINCE_UNTIL,
      <<49, 50, 44, 48, 53, 44, 49, 57, 57, 48>>,          \* '12,05,1990'
      <<79, 49, 46, 79, 50, 46, 50, 79, 79, 53>> }         \* 'O1.O2.2OO5'

\* the texts normalize_date is called with
DATE_TEXTS ==
    {DmyText(d, sep, m, y) :
         d \in DayTexts, sep \in DATE_SEPARATORS, m \in MonthTexts, y \in YearTexts}
    \cup {IsoText(y, m, d) : y \in DATE_YEARS, m \in DATE_MONTHS, d \in DATE_DAYS}
    \cup OTHER_DATE_TEXTS

\* '12345678901234' and '09876543210987'
LICENSE_DIGITS ==
    { <<49, 50, 51, 52, 53, 54, 55, 56, 57, 48, 49, 50, 51, 52>>,
      <<48, 57, 56, 55, 54, 53, 52, 51, 50, 49, 48, 57, 56, 55>> }

\* the longest digit string normalize_license_number is called with
MaxLicenseDigits == 12

\* ten digits written DD DD DDDDDD
Spaced(digits) ==
    SubSeq(digits, 1, 2) \o <<32>> \o SubSeq(digits, 3, 4) \o <<32>> \o SubSeq(digits, 5, 10)

\* the texts normalize_license_number is called with: digit strings, spaced numbers,
\* a number after a label, letters that are read as digits, too few and too many digits
LICENSE_TEXTS ==
    {SubSeq(d, 1, n) : d \in LICENSE_DIGITS, n \in 0..MaxLicenseDigits}
    \cup {Spaced(d) : d \in LICENSE_DIGITS}
    \cup {Spaced(d) \o <<32>> \o SubSeq(d, 11, n) : d \in LICENSE_DIGITS, n \in 11..MaxLicenseDigits}
    \cup {SubSeq(Spaced(d), 1, n) : d \in LICENSE_DIGITS, n \in 9..11}
    \cup { TXT_LICENSE_LABELLED, TXT_SURNAME,
           <<65, 66, 67, 68>>,                                       \* 'ABCD'
           <<73, 50, 32, 51, 52, 32, 83, 54, 55, 56, 57, 79>>,       \* 'I2 34 S6789O'
           <<79, 79, 79, 79, 79, 79, 79, 79, 79, 79>>,               \* 'OOOOOOOOOO'
           <<120, 49, 50, 51, 52, 53, 54, 55, 56, 57, 48, 49, 121>> } \* 'x12345678901y'

\* words of a category text: 'A', 'b', 'C1', 'be', 'TM', 'B1x', 'Categories', 'a1'
CATEGORY_WORDS ==
    { <<65>>, <<98>>, <<67, 49>>, <<98, 101>>, <<84, 77>>, <<66, 49, 120>>,
      <<67, 97, 116, 101, 103, 111, 114, 105, 101, 115>>, <<97, 49>> }

\* the most words a sample category text has
MaxCategoryWords == 3

\* the texts parse_categories is called with: words joined by ' ' or by ', ', the text
\* of the test, the back regions' text, words joined by '_' and by '-', the empty text
CATEGORY_TEXTS ==
    {Join(words, sep) :
         words \in UNION {[1..n -> CATEGORY_WORDS] : n \in 1..MaxCategoryWords},
         sep \in { <<32>>, <<44, 32>> }}
    \cup { <<>>, TXT_BACK_RAW, TXT_CATEGORIES,
           <<67, 97, 116, 101, 103, 111, 114, 105, 101, 115, 58, 32, 65, 32, 66, 32,
             67, 49, 32, 66, 69, 32, 77>>,                \* 'Categories: A B C1 BE M'
           <<65, 95, 66>>,                                 \* 'A_B'
           <<65, 45, 98, 47, 99, 49>> }                    \* 'A-b/c1'

\* the region results parse_front is called with: the name regions in every
\* combination of the texts below, and the issuer region alone
PARSE_FRONT_ROIS ==
    LET patronymic == <<1048, 1042, 1040, 1053, 1054, 1042, 1048, 1063>>      \* 'ИВАНОВИЧ'
        latin == <<73, 86, 65, 78, 79, 86>>                                   \* 'IVANOV'
        labelled == <<49, 46, 32>> \o TXT_SURNAME                             \* '1. ИВАНОВ'
        gibdd == <<1043, 1048, 1041, 1044, 1044>>                             \* 'ГИБДД'
        n8210 == <<56, 50, 49, 48>>                                           \* '8210'
        issuers ==
            { <<>>, TXT_ISSUER,
              <<71, 73, 66, 68, 68, 32>> \o n8210,                            \* 'GIBDD 8210'
              gibdd \o <<32>> \o n8210 \o <<32, 47, 32, 71, 73, 66, 68, 68, 32>> \o n8210,
                                                            \* 'ГИБДД 8210 / GIBDD 8210'
              gibdd \o <<32>> \o n8210 \o <<32, 47, 32, 71, 73, 68, 68, 32>> \o n8210,
                                                            \* 'ГИБДД 8210 / GIDD 8210'
              gibdd \o <<32>> \o TXT_ISSUER,                                  \* 'ГИБДД ГИБДД 7701'
              <<52, 99, 41, 32>> \o TXT_ISSUER,                               \* '4c) ГИБДД 7701'
              <<77, 80, 69, 79, 32, 55, 55, 48, 49>>,                         \* 'MPEO 7701'
              <<1054, 1042, 1044, 32>> \o n8210 }                             \* 'ОВД 8210'
    IN {[surname |-> Roi(surname, IF surname = <<>> THEN 100 ELSE 900),
         name |-> Roi(name, 920),
         patronymic |-> Roi(third, IF third = <<>> THEN 0 ELSE 850),
         full_name_line |-> Roi(line, 880)] :
            surname \in {<<>>, TXT_SURNAME, latin},
            name \in {<<>>, TXT_NAME, TXT_NAME \o <<32>> \o patronymic},
            third \in {<<>>, patronymic},
            line \in {<<>>, TXT_NAME_LINE, TXT_NAME_LINE \o <<32>> \o patronymic, labelled}}
       \cup {[license_issued_by |-> Roi(issuer, 900)] : issuer \in issuers}
       \cup {[birth_date |-> Roi(birth, confidence),
              license_number |-> Roi(license, confidence)] :
                 birth \in {TXT_BIRTH_BARE, TXT_BIRTH_LABELLED},
                 license \in {TXT_LICENSE_BARE, TXT_LICENSE_LABELLED, RemoveSpace(TXT_LICENSE_BARE)},
                 confidence \in {700, 900}}

\* a process that calls one function of parse.py on one argument
ParseInit ==
    /\ AlignIdle /\ EngineIdle /\ StepIdle /\ RoiIdle /\ DictIdle
    /\ cv2_available = TRUE /\ strftime_pads_year \in BOOLEAN
    /\ front_bytes = "none" /\ back_bytes = "none"
    /\ warnings = <<>> /\ images = <<>>
    /\ front_rois = EmptyDict /\ back_rois = EmptyDict
    /\ front_processed_variants = FALSE
    /\ front_roi_text = <<>> /\ back_roi_text = <<>>
    /\ front_context_text = <<>>
    /\ parsed_front = EmptyDict /\ region_parsed = EmptyDict
    /\ fallback_text = <<>> /\ fallback_conf = 0
    /\ calls = {} /\ raised = "none"
    /\ response = NoResponse
    /\ status_fields = EmptyDict
    /\ status_result = <<"none", {}, {}>>
    /\ call_result = None /\ call_again = None
    /\ \/ pc = "normalize_date" /\ call_arg \in DATE_TEXTS
       \/ pc = "normalize_license_number" /\ call_arg \in LICENSE_TEXTS
       \/ pc = "parse_categories" /\ call_arg \in CATEGORY_TEXTS
       \/ pc = "parse_front" /\ call_arg \in PARSE_FRONT_ROIS

\* parse.py:110-136
NormalizeDate ==
    /\ pc = "normalize_date"
    /\ call_result' = normalize_date(call_arg)
    /\ pc' = "date"
    /\ UNCHANGED <<align_vars, engine_vars, step_vars, roi_vars, dict_vars, cv2_available, strftime_pads_year, front_bytes, back_bytes, warnings,
                   images, front_rois, back_rois, front_processed_variants, front_roi_text,
                   back_roi_text, front_context_text, parsed_front, region_parsed,
                   fallback_text, fallback_conf, calls, raised, response, status_fields,
                   status_result, call_arg, call_again>>

\* parse.py:110-136, called with the date the first call returned
NormalizeDateAgain ==
    /\ pc = "date"
    /\ call_result # None
    /\ call_again' = normalize_date(call_result[2])
    /\ pc' = "date_again"
    /\ UNCHANGED <<align_vars, engine_vars, step_vars, roi_vars, dict_vars, cv2_available, strftime_pads_year, front_bytes, back_bytes, warnings,
                   images, front_rois, back_rois, front_processed_variants, front_roi_text,
                   back_roi_text, front_context_text, parsed_front, region_parsed,
                   fallback_text, fallback_conf, calls, raised, response, status_fields,
                   status_result, call_arg, call_result>>

\* parse.py:139-151
NormalizeLicenseNumber ==
    /\ pc = "normalize_license_number"
    /\ call_result' = normalize_license_number(call_arg)
    /\ pc' = "license"
    /\ UNCHANGED <<align_vars, engine_vars, step_vars, roi_vars, dict_vars, cv2_available, strftime_pads_year, front_bytes, back_bytes, warnings,
                   images, front_rois, back_rois, front_processed_variants, front_roi_text,
                   back_roi_text, front_context_text, parsed_front, region_parsed,
                   fallback_text, fallback_conf, calls, raised, response, status_fields,
                   status_result, call_arg, call_again>>

\* parse.py:154-162
ParseCategories ==
    /\ pc = "parse_categories"
    /\ call_result' = parse_categories(call_arg)
    /\ pc' = "categories"
    /\ UNCHANGED <<align_vars, engine_vars, step_vars, roi_vars, dict_vars, cv2_available, strftime_pads_year, front_bytes, back_bytes, warnings,
                   images, front_rois, back_rois, front_processed_variants, front_roi_text,
                   back_roi_text, front_context_text, parsed_front, region_parsed,
                   fallback_text, fallback_conf, calls, raised, response, status_fields,
                   status_result, call_arg, call_again>>

\* parse.py:303-377, called without a context text
ParseFrontCall ==
    /\ pc = "parse_front"
    /\ call_result' = parse_front(call_arg, <<>>)
    /\ pc' = "front"
    /\ UNCHANGED <<align_vars, engine_vars, step_vars, roi_vars, dict_vars, cv2_available, strftime_pads_year, front_bytes, back_bytes, warnings,
                   images, front_rois, back_rois, front_processed_variants, front_roi_text,
                   back_roi_text, front_context_text, parsed_front, region_parsed,
                   fallback_text, fallback_conf, calls, raised, response, status_fields,
                   status_result, call_arg, call_again>>

ParseNext ==
    \/ NormalizeDate \/ NormalizeDateAgain \/ NormalizeLicenseNumber \/ ParseCategories
    \/ ParseFrontCall

ParseSpec == ParseInit /\ [][ParseNext]_vars

----------------------------------------------------------------------------
(* The alignment step of _process_side: pipeline.py:564-572 and doc_detect.py *)

\* a bool as a Python value
Bool(b) == <<"bool", IF b THEN <<1>> ELSE <<>>>>

\* str.lower on ASCII letters
LowerChar(c) == IF c >= 65 /\ c <= 90 THEN c + 32 ELSE c
Lower(s) == Listed([i \in 1..Len(s) |-> LowerChar(s[i])])

\* "0", "false", "no", "off"
KEYPOINTS_OFF == {<<48>>, <<102, 97, 108, 115, 101>>, <<110, 111>>, <<111, 102, 102>>}

\* pipeline.py:505-513.  settings holds OCR_USE_KEYPOINTS of the Django settings and
\* of the environment
_should_use_keypoints(settings) ==
    LET decide(value) ==
            IF value[1] = "none" THEN TRUE
            ELSE IF value[1] = "str" THEN Lower(Strip(value[2])) \notin KEYPOINTS_OFF
            ELSE value[2] # <<>>
    IN decide(IF settings.use_keypoints[1] = "none" THEN settings.env_use_keypoints
              ELSE settings.use_keypoints)

\* what detect_keypoints and warp_with_keypoints can do with an image
KEYPOINT_DETECTIONS == {"raise", "none", "keypoints"}
KEYPOINT_WARPS == {"raise", "warped"}

\* history of a call of _try_keypoint_warp: how far it went
KeypointOutcome(settings, detect, warp) ==
    LET model_path == IF settings.model_path # <<>> THEN settings.model_path
                      ELSE settings.env_model_path
    IN IF model_path = <<>> THEN "no model path"
       ELSE IF ~_should_use_keypoints(settings) THEN "switched off"
       ELSE IF detect = "raise" THEN "detect_keypoints raised"
       ELSE IF detect = "none" THEN "no keypoints"
       ELSE IF warp = "raise" THEN "warp_with_keypoints raised"
       ELSE "warped"

\* pipeline.py:517-534: the warped image, or "none" for None.  Both exceptions are
\* caught and logged
_try_keypoint_warp(settings, detect, warp) ==
    LET model_path == IF settings.model_path # <<>> THEN settings.model_path
                      ELSE settings.env_model_path
    IN IF model_path = <<>> \/ ~_should_use_keypoints(settings) THEN "none"
       ELSE IF detect = "raise" THEN "none"
       ELSE IF detect = "none" THEN "none"
       ELSE IF warp = "raise" THEN "none"
       ELSE "keypoint warp"

\* sorted(contours, key=cv2.contourArea, reverse=True): stable, largest first
RECURSIVE SortedByArea(_)
SortedByArea(contours) ==
    LET insert(c, rest) ==
            SelectSeq(rest, LAMBDA d : d.area > c.area) \o <<c>>
                \o SelectSeq(rest, LAMBDA d : d.area <= c.area)
    IN IF contours = <<>> THEN <<>>
       ELSE insert(Head(contours), SortedByArea(Tail(contours)))

\* detect_and_warp without the minimum-area rectangle of the largest contour
detect_and_warp_norect(found) ==
    LET contours == SubSeq(SortedByArea(found), 1, IF Len(found) < 10 THEN Len(found) ELSE 10)
    IN IF \E i \in DOMAIN contours : contours[i].area >= 80 /\ contours[i].vertices = 4
       THEN <<"contour warp", FALSE>>
       ELSE <<"resize", TRUE>>

\* doc_detect.py:32-93: <<warped, used_fallback>>.  found is what cv2.findContours
\* returns: for each contour its area in thousandths of the image area and the number
\* of vertices of its approxPolyDP polygon
detect_and_warp(found) ==
    LET choose(contours) ==
            IF \E i \in DOMAIN contours : contours[i].area >= 80 /\ contours[i].vertices = 4
            THEN <<"contour warp", FALSE>>
            ELSE IF contours # <<>> /\ contours[1].area >= 50
                 THEN <<"rectangle warp", FALSE>>
            ELSE <<"resize", TRUE>>
    IN choose(SubSeq(SortedByArea(found), 1, IF Len(found) < 10 THEN Len(found) ELSE 10))

\* the contours of the decoded images
MaxContours == 2
CONTOURS == {[area |-> a, vertices |-> v] : a \in {49, 50, 80}, v \in {4, 6}}
IMAGES == UNION {[1..n -> CONTOURS] : n \in 0..MaxContours}

\* OCR_KEYPOINT_MODEL_PATH and OCR_USE_KEYPOINTS in the settings and in the environment
KEYPOINT_SETTINGS ==
    {[model_path |-> p, env_model_path |-> e, use_keypoints |-> u, env_use_keypoints |-> v] :
        p \in {<<>>, <<109>>}, e \in {<<>>, <<109>>},
        u \in {None, Str(<<48>>), Str(<<32, 79, 102, 102, 32>>), Str(<<49>>),
               Bool(TRUE), Bool(FALSE)},
        v \in {None, Str(<<110, 111>>), Str(<<116, 114, 117, 101>>)}}

\* _process_side at pipeline.py:564: the image is decoded and stored
AlignInit ==
    /\ pc = "try_keypoint_warp"
    /\ cv2_available = TRUE /\ strftime_pads_year = FALSE
    /\ side_arg \in {"front", "back"}
    /\ front_bytes = (IF side_arg = "front" THEN "image" ELSE "none")
    /\ back_bytes = (IF side_arg = "back" THEN "image" ELSE "none")
    /\ \E ok \in BOOLEAN :
          /\ images = <<[role |-> side_arg, stored |-> ok]>>
          /\ warnings = (IF ok THEN <<>> ELSE <<WarnStore(side_arg)>>)
    /\ front_rois = EmptyDict /\ back_rois = EmptyDict
    /\ front_processed_variants = FALSE
    /\ front_roi_text = <<>> /\ back_roi_text = <<>>
    /\ front_context_text = <<>>
    /\ parsed_front = EmptyDict /\ region_parsed = EmptyDict
    /\ fallback_text = <<>> /\ fallback_conf = 0
    /\ calls = {<<"decode", side_arg>>, <<"store", side_arg>>} /\ raised = "none"
    /\ response = NoResponse
    /\ status_fields = EmptyDict
    /\ status_result = <<"none", {}, {}>>
    /\ call_arg = None /\ call_result = None /\ call_again = None
    /\ image \in IMAGES
    /\ keypoint_settings \in KEYPOINT_SETTINGS
    /\ keypoint_outcome = "none" /\ warped = "none" /\ alignment = "none"
    /\ EngineIdle /\ StepIdle /\ RoiIdle /\ DictIdle

\* pipeline.py:564-567
TryKeypointWarp ==
    /\ pc = "try_keypoint_warp"
    /\ \E detect \in KEYPOINT_DETECTIONS, warp \in KEYPOINT_WARPS :
          /\ keypoint_outcome' = KeypointOutcome(keypoint_settings, detect, warp)
          /\ warped' = _try_keypoint_warp(keypoint_settings, detect, warp)
    /\ alignment' = (IF warped' # "none" THEN "keypoints" ELSE "contour")
    /\ pc' = (IF warped' # "none" THEN "aligned" ELSE "detect_and_warp")
    /\ UNCHANGED <<engine_vars, step_vars, roi_vars, dict_vars, cv2_available, strftime_pads_year, front_bytes, back_bytes,
                   warnings, images, front_rois, back_rois, front_processed_variants,
                   front_roi_text, back_roi_text, front_context_text, parsed_front,
                   region_parsed, fallback_text, fallback_conf, calls, raised, response,
                   status_fields, status_result, call_arg, call_result, call_again,
                   side_arg, image, keypoint_settings>>

\* pipeline.py:568-572
DetectAndWarp ==
    /\ pc = "detect_and_warp"
    /\ LET result == detect_and_warp(image)
       IN /\ warped' = result[1]
          /\ alignment' = (IF result[2] THEN "resize" ELSE alignment)
          /\ warnings' = (IF result[2] THEN Append(warnings, WarnResize(side_arg))
                          ELSE warnings)
    /\ calls' = calls \cup {<<"align", side_arg>>}
    /\ pc' = "aligned"
    /\ UNCHANGED <<engine_vars, step_vars, roi_vars, dict_vars, cv2_available, strftime_pads_year, front_bytes, back_bytes,
                   images, front_rois, back_rois, front_processed_variants,
                   front_roi_text, back_roi_text, front_context_text, parsed_front,
                   region_parsed, fallback_text, fallback_conf, raised, response,
                   status_fields, status_result, call_arg, call_result, call_again,
                   side_arg, image, keypoint_settings, keypoint_outcome>>

AlignNext == TryKeypointWarp \/ DetectAndWarp

AlignSpec == AlignInit /\ [][AlignNext]_vars

----------------------------------------------------------------------------
(* The engine singletons: ocr_engine.get_ocr and keypoint_detect._get_model, called by
   the threads of one process.  A step is one read or write of a module global, one
   acquire or release of a lock, or one constructor call *)

\* the calls one thread makes
MaxCalls == 1

\* the variables of extract and of the direct calls
extract_vars ==
    <<pc, cv2_available, strftime_pads_year, front_bytes, back_bytes, warnings, images,
      front_rois, back_rois, front_processed_variants, front_roi_text, back_roi_text,
      front_context_text, parsed_front, region_parsed, fallback_text, fallback_conf,
      calls, raised, response, status_fields, status_result, call_arg, call_result,
      call_again>>

\* the n-th engine a constructor returned
Instance(class, n) == <<class, <<n>>>>

\* the engines a constructor has returned so far
Constructed(class) == SelectSeq(constructor_calls, LAMBDA c : c[1] = class)

\* the call of a thread ends: by a return of value, or by an exception
Returns(t, value) ==
    /\ thread_results' = [thread_results EXCEPT ![t] = Append(@, thread_call[t] \o <<value>>)]
    /\ thread_pc' = [thread_pc EXCEPT ![t] = "idle"]

Goto(t, label) ==
    /\ thread_pc' = [thread_pc EXCEPT ![t] = label]
    /\ UNCHANGED thread_results

EngineInit ==
    /\ pc = "threads"
    /\ cv2_available = TRUE /\ strftime_pads_year = FALSE
    /\ front_bytes = "none" /\ back_bytes = "none"
    /\ warnings = <<>> /\ images = <<>>
    /\ front_rois = EmptyDict /\ back_rois = EmptyDict
    /\ front_processed_variants = FALSE
    /\ front_roi_text = <<>> /\ back_roi_text = <<>>
    /\ front_context_text = <<>>
    /\ parsed_front = EmptyDict /\ region_parsed = EmptyDict
    /\ fallback_text = <<>> /\ fallback_conf = 0
    /\ calls = {} /\ raised = "none"
    /\ response = NoResponse
    /\ status_fields = EmptyDict
    /\ status_result = <<"none", {}, {}>>
    /\ call_arg = None /\ call_result = None /\ call_again = None
    /\ AlignIdle /\ StepIdle /\ RoiIdle /\ DictIdle
    /\ PaddleOCR \in BOOLEAN /\ YOLO \in BOOLEAN
    /\ _OCR_INSTANCE = None /\ _OCR_LOCK = 0
    /\ _MODEL = None /\ _MODEL_LOCK = 0
    /\ thread_pc = [t \in THREADS |-> "idle"]
    /\ thread_call = [t \in THREADS |-> <<"none", <<>>>>]
    /\ thread_results = [t \in THREADS |-> <<>>]
    /\ constructor_calls = <<>>

\* a request thread calls get_ocr() or _get_model(model_path)
ThreadCall(t) ==
    /\ thread_pc[t] = "idle"
    /\ Len(thread_results[t]) < MaxCalls
    /\ \E call \in {<<"get_ocr", <<>>>>, <<"_get_model", <<>>>>, <<"_get_model", <<109>>>>} :
          thread_call' = [thread_call EXCEPT ![t] = call]
    /\ Goto(t, "entry")
    /\ UNCHANGED <<extract_vars, align_vars, step_vars, roi_vars, dict_vars, PaddleOCR, YOLO, _OCR_INSTANCE, _OCR_LOCK,
                   _MODEL, _MODEL_LOCK, constructor_calls>>

\* ocr_engine.py:57-60: _require_paddle, then the first test of _OCR_INSTANCE
GetOcrEntry(t) ==
    /\ thread_pc[t] = "entry" /\ thread_call[t][1] = "get_ocr"
    /\ IF ~PaddleOCR THEN Returns(t, <<"raised", <<>>>>)
       ELSE IF _OCR_INSTANCE = None THEN Goto(t, "acquire")
       ELSE Goto(t, "return")
    /\ UNCHANGED <<extract_vars, align_vars, step_vars, roi_vars, dict_vars, PaddleOCR, YOLO, _OCR_INSTANCE, _OCR_LOCK,
                   _MODEL, _MODEL_LOCK, thread_call, constructor_calls>>

\* get_ocr that enters the block of ocr_engine.py:61 without waiting for the lock
GetOcrAcquire_nolock(t) ==
    /\ thread_pc[t] = "acquire" /\ thread_call[t][1] = "get_ocr"
    /\ _OCR_LOCK' = t
    /\ Goto(t, "locked")
    /\ UNCHANGED <<extract_vars, align_vars, step_vars, roi_vars, dict_vars, PaddleOCR, YOLO, _OCR_INSTANCE,
                   _MODEL, _MODEL_LOCK, thread_call, constructor_calls>>

\* ocr_engine.py:61: with _OCR_LOCK, which waits until the lock is free
GetOcrAcquire(t) ==
    /\ thread_pc[t] = "acquire" /\ thread_call[t][1] = "get_ocr"
    /\ _OCR_LOCK = 0
    /\ _OCR_LOCK' = t
    /\ Goto(t, "locked")
    /\ UNCHANGED <<extract_vars, align_vars, step_vars, roi_vars, dict_vars, PaddleOCR, YOLO, _OCR_INSTANCE,
                   _MODEL, _MODEL_LOCK, thread_call, constructor_calls>>

\* ocr_engine.py:62: the second test, under the lock
GetOcrLocked(t) ==
    /\ thread_pc[t] = "locked" /\ thread_call[t][1] = "get_ocr"
    /\ IF _OCR_INSTANCE = None THEN Goto(t, "construct") ELSE Goto(t, "release")
    /\ UNCHANGED <<extract_vars, align_vars, step_vars, roi_vars, dict_vars, PaddleOCR, YOLO, _OCR_INSTANCE, _OCR_LOCK,
                   _MODEL, _MODEL_LOCK, thread_call, constructor_calls>>

\* ocr_engine.py:63-74: PaddleOCR(**kwargs) returns an engine, which is assigned, or
\* raises, which leaves the with block and the function
GetOcrConstruct(t) ==
    /\ thread_pc[t] = "construct" /\ thread_call[t][1] = "get_ocr"
    /\ \/ /\ _OCR_INSTANCE' = Instance("PaddleOCR", Len(Constructed("PaddleOCR")) + 1)
          /\ constructor_calls' = Append(constructor_calls, <<"PaddleOCR", t>>)
          /\ Goto(t, "release")
          /\ UNCHANGED _OCR_LOCK
       \/ /\ _OCR_LOCK' = 0
          /\ Returns(t, <<"raised", <<>>>>)
          /\ UNCHANGED <<_OCR_INSTANCE, constructor_calls>>
    /\ UNCHANGED <<extract_vars, align_vars, step_vars, roi_vars, dict_vars, PaddleOCR, YOLO, _MODEL, _MODEL_LOCK,
                   thread_call>>

\* the end of the with block of ocr_engine.py:61
GetOcrRelease(t) ==
    /\ thread_pc[t] = "release" /\ thread_call[t][1] = "get_ocr"
    /\ _OCR_LOCK' = 0
    /\ Goto(t, "return")
    /\ UNCHANGED <<extract_vars, align_vars, step_vars, roi_vars, dict_vars, PaddleOCR, YOLO, _OCR_INSTANCE,
                   _MODEL, _MODEL_LOCK, thread_call, constructor_calls>>

\* ocr_engine.py:75
GetOcrReturn(t) ==
    /\ thread_pc[t] = "return" /\ thread_call[t][1] = "get_ocr"
    /\ Returns(t, _OCR_INSTANCE)
    /\ UNCHANGED <<extract_vars, align_vars, step_vars, roi_vars, dict_vars, PaddleOCR, YOLO, _OCR_INSTANCE, _OCR_LOCK,
                   _MODEL, _MODEL_LOCK, thread_call, constructor_calls>>

\* keypoint_detect.py:43-46: no YOLO or no model path returns None; then the first
\* test of _MODEL
GetModelEntry(t) ==
    /\ thread_pc[t] = "entry" /\ thread_call[t][1] = "_get_model"
    /\ IF ~YOLO \/ thread_call[t][2] = <<>> THEN Returns(t, None)
       ELSE IF _MODEL = None THEN Goto(t, "acquire")
       ELSE Goto(t, "return")
    /\ UNCHANGED <<extract_vars, align_vars, step_vars, roi_vars, dict_vars, PaddleOCR, YOLO, _OCR_INSTANCE, _OCR_LOCK,
                   _MODEL, _MODEL_LOCK, thread_call, constructor_calls>>

\* keypoint_detect.py:47: with _MODEL_LOCK
GetModelAcquire(t) ==
    /\ thread_pc[t] = "acquire" /\ thread_call[t][1] = "_get_model"
    /\ _MODEL_LOCK = 0
    /\ _MODEL_LOCK' = t
    /\ Goto(t, "locked")
    /\ UNCHANGED <<extract_vars, align_vars, step_vars, roi_vars, dict_vars, PaddleOCR, YOLO, _OCR_INSTANCE, _OCR_LOCK,
                   _MODEL, thread_call, constructor_calls>>

\* keypoint_detect.py:48
GetModelLocked(t) ==
    /\ thread_pc[t] = "locked" /\ thread_call[t][1] = "_get_model"
    /\ IF _MODEL = None THEN Goto(t, "construct") ELSE Goto(t, "release")
    /\ UNCHANGED <<extract_vars, align_vars, step_vars, roi_vars, dict_vars, PaddleOCR, YOLO, _OCR_INSTANCE, _OCR_LOCK,
                   _MODEL, _MODEL_LOCK, thread_call, constructor_calls>>

\* keypoint_detect.py:49: YOLO(model_path) returns a model or raises
GetModelConstruct(t) ==
    /\ thread_pc[t] = "construct" /\ thread_call[t][1] = "_get_model"
    /\ \/ /\ _MODEL' = Instance("YOLO", Len(Constructed("YOLO")) + 1)
          /\ constructor_calls' = Append(constructor_calls, <<"YOLO", t>>)
          /\ Goto(t, "release")
          /\ UNCHANGED _MODEL_LOCK
       \/ /\ _MODEL_LOCK' = 0
          /\ Returns(t, <<"raised", <<>>>>)
          /\ UNCHANGED <<_MODEL, constructor_calls>>
    /\ UNCHANGED <<extract_vars, align_vars, step_vars, roi_vars, dict_vars, PaddleOCR, YOLO, _OCR_INSTANCE, _OCR_LOCK,
                   thread_call>>

\* the end of the with block of keypoint_detect.py:47
GetModelRelease(t) ==
    /\ thread_pc[t] = "release" /\ thread_call[t][1] = "_get_model"
    /\ _MODEL_LOCK' = 0
    /\ Goto(t, "return")
    /\ UNCHANGED <<extract_vars, align_vars, step_vars, roi_vars, dict_vars, PaddleOCR, YOLO, _OCR_INSTANCE, _OCR_LOCK,
                   _MODEL, thread_call, constructor_calls>>

\* keypoint_detect.py:50
GetModelReturn(t) ==
    /\ thread_pc[t] = "return" /\ thread_call[t][1] = "_get_model"
    /\ Returns(t, _MODEL)
    /\ UNCHANGED <<extract_vars, align_vars, step_vars, roi_vars, dict_vars, PaddleOCR, YOLO, _OCR_INSTANCE, _OCR_LOCK,
                   _MODEL, _MODEL_LOCK, thread_call, constructor_calls>>

EngineNext ==
    \E t \in THREADS :
        \/ ThreadCall(t)
        \/ GetOcrEntry(t) \/ GetOcrAcquire(t) \/ GetOcrLocked(t) \/ GetOcrConstruct(t)
        \/ GetOcrRelease(t) \/ GetOcrReturn(t)
        \/ GetModelEntry(t) \/ GetModelAcquire(t) \/ GetModelLocked(t)
        \/ GetModelConstruct(t) \/ GetModelRelease(t) \/ GetModelReturn(t)

EngineSpec == EngineInit /\ [][EngineNext]_vars

----------------------------------------------------------------------------
(* pipeline.py: the candidates of a region and their scores.  A recognition result is
   a list of <<text, confidence>>; a score is in units of 1/4000 *)

\* pipeline.py:54-56
DATE_FIELDS == {"birth_date", "driving_since"}
NAME_FIELDS == {"surname", "name", "patronymic", "full_name_line"}
DETECT_FIELDS == {"raw_text", "full_name_line"}

\* pipeline.py:58-67 with the default of FIELD_THRESHOLDS.get(field, 0.8)
FIELD_THRESHOLDS(field) ==
    CASE field \in {"birth_date", "driving_since"} -> 780
      [] field = "license_number" -> 800
      [] field \in {"license_issued_by", "patronymic", "full_name_line"} -> 700
      [] field \in {"surname", "name"} -> 750
      [] OTHER -> 800

\* "ГИБДД" and "GIBDD"
SCORE_ISSUER_WORDS == {<<1043, 1048, 1041, 1044, 1044>>, <<71, 73, 66, 68, 68>>}

\* pipeline.py:106-131
_score_text(field, text, conf) ==
    LET name(quality) == quality + (IF quality = 0 THEN -800 ELSE 0)
        date(parsed) == IF parsed # None THEN 1000 ELSE -600
        license(digits, parsed) ==
            (IF Len(digits) = 10 THEN 1200 ELSE -600) + (IF parsed # None THEN -1200 ELSE 0)
        issuer(upper) ==
            IF \E word \in SCORE_ISSUER_WORDS : Contains(upper, word) THEN 800 ELSE 0
    IN IF text = <<>> THEN -4000
       ELSE 4 * conf
            + (IF field \in NAME_FIELDS THEN name(_name_quality(text)) ELSE 0)
            + (IF field \in DATE_FIELDS THEN date(normalize_date(text)) ELSE 0)
            + (IF field = "license_number"
               THEN license(SelectSeq(text, IsDigit), normalize_date(text)) ELSE 0)
            + (IF field = "license_issued_by" THEN issuer(Upper(text)) ELSE 0)

\* _is_good_enough that accepts every name of a quality above zero
_is_good_enough_nonzero(field, text, conf) ==
    IF conf < FIELD_THRESHOLDS(field) THEN FALSE
    ELSE IF field \in DATE_FIELDS /\ normalize_date(text) = None THEN FALSE
    ELSE IF field = "license_number" /\ Len(SelectSeq(text, IsDigit)) # 10 THEN FALSE
    ELSE IF field \in NAME_FIELDS /\ _name_quality(text) = 0 THEN FALSE
    ELSE TRUE

\* pipeline.py:134-146
_is_good_enough(field, text, conf) ==
    IF conf < FIELD_THRESHOLDS(field) THEN FALSE
    ELSE IF field \in DATE_FIELDS /\ normalize_date(text) = None THEN FALSE
    ELSE IF field = "license_number" /\ Len(SelectSeq(text, IsDigit)) # 10 THEN FALSE
    ELSE IF field \in NAME_FIELDS /\ _name_quality(text) < 400 THEN FALSE
    ELSE TRUE

RECURSIVE SumConf(_)
SumConf(texts) == IF texts = <<>> THEN 0 ELSE Head(texts)[2] + SumConf(Tail(texts))

\* the text.strip() of the entries with a text
StrippedTexts(texts) ==
    Listed([i \in 1..Len(SelectSeq(texts, LAMBDA t : t[1] # <<>>)) |->
               Strip(SelectSeq(texts, LAMBDA t : t[1] # <<>>)[i][1])])

\* pipeline.py:149-154
_merge_texts(texts) ==
    IF texts = <<>> THEN <<<<>>, 0>>
    ELSE <<Strip(Join(StrippedTexts(texts), <<32>>)), Round3(SumConf(texts), Len(texts))>>

\* scored.sort(key=score, reverse=True) of entries <<score, conf, cleaned>>: stable
RECURSIVE SortedByScore(_)
SortedByScore(scored) ==
    LET insert(c, rest) ==
            SelectSeq(rest, LAMBDA d : d[1] > c[1]) \o <<c>>
                \o SelectSeq(rest, LAMBDA d : d[1] <= c[1])
    IN IF scored = <<>> THEN <<>>
       ELSE insert(Head(scored), SortedByScore(Tail(scored)))

\* pipeline.py:157-176: <<text, confidence>>
_pick_text_for_field(field, texts) ==
    LET cleaned(kept) ==
            Listed([i \in 1..Len(kept) |->
                       <<_score_text(field, Strip(kept[i][1]), kept[i][2]), kept[i][2],
                         Strip(kept[i][1])>>])
        merged(best) ==
            <<Join(Listed([i \in 1..Len(best) |-> best[i][3]]), <<32>>),
              Round3(SumConf(Listed([i \in 1..Len(best) |-> <<best[i][3], best[i][2]>>])),
                     Len(best))>>
        pick(scored) ==
            IF scored = <<>> THEN _merge_texts(texts)
            ELSE IF field = "full_name_line" /\ Len(scored) >= 2
                 THEN merged(SubSeq(scored, 1, Min(3, Len(scored))))
            ELSE <<scored[1][3], scored[1][2]>>
    IN IF texts = <<>> THEN <<<<>>, 0>>
       ELSE IF field \in NAME_FIELDS
            THEN pick(SortedByScore(cleaned(SelectSeq(texts, LAMBDA t : Strip(t[1]) # <<>>))))
       ELSE _merge_texts(texts)

----------------------------------------------------------------------------
(* pipeline.py:337-503: the choice of the front template.  Coordinates are pixels;
   a shift and an error are in half pixels *)

\* rois.py:3-5
CANVAS_WIDTH == 1400
CANVAS_HEIGHT == 900

Region(x, y, w, h) == [x |-> x, y |-> y, w |-> w, h |-> h]

\* rois.py:18-39; the templates in the order of the dict
TEMPLATE_ORDER == <<"v2", "v1">>
FRONT_ROI_TEMPLATES ==
    [name \in {"v2", "v1"} |->
        IF name = "v2"
        THEN [surname |-> Region(520, 240, 780, 60), name |-> Region(520, 300, 780, 60),
              patronymic |-> Region(520, 350, 780, 55),
              full_name_line |-> Region(520, 240, 780, 170),
              birth_date |-> Region(520, 400, 300, 55),
              license_number |-> Region(520, 650, 420, 60),
              license_issued_by |-> Region(520, 560, 520, 70),
              driving_since |-> Region(520, 520, 300, 50)]
        ELSE [surname |-> Region(520, 230, 780, 55), name |-> Region(520, 290, 780, 60),
              patronymic |-> Region(520, 350, 780, 45),
              full_name_line |-> Region(520, 230, 780, 165),
              birth_date |-> Region(520, 400, 260, 50),
              license_number |-> Region(520, 510, 420, 60),
              license_issued_by |-> Region(520, 560, 500, 70),
              driving_since |-> Region(520, 455, 260, 45)]]

\* rois.py:41
DEFAULT_FRONT_TEMPLATE == "v2"

\* rois.py:43-60
ANCHOR_LABELS == <<"1", "2", "3", "4A", "4B", "5">>
FRONT_ANCHORS ==
    [name \in {"v2", "v1"} |->
        IF name = "v2"
        THEN ("1" :> <<490, 265>>) @@ ("2" :> <<490, 325>>) @@ ("3" :> <<490, 410>>)
             @@ ("4A" :> <<490, 525>>) @@ ("4B" :> <<900, 525>>) @@ ("5" :> <<490, 670>>)
        ELSE ("1" :> <<490, 255>>) @@ ("2" :> <<490, 315>>) @@ ("3" :> <<490, 400>>)
             @@ ("4A" :> <<490, 465>>) @@ ("4B" :> <<900, 465>>) @@ ("5" :> <<490, 525>>)]

\* pipeline.py:455-463
_should_use_anchors(settings) ==
    LET decide(value) ==
            IF value[1] = "none" THEN TRUE
            ELSE IF value[1] = "str" THEN Lower(Strip(value[2])) \notin KEYPOINTS_OFF
            ELSE value[2] # <<>>
    IN decide(IF settings.use_anchors[1] = "none" THEN settings.env_use_anchors
              ELSE settings.use_anchors)

\* what a call of the recognition engine gives: it raises, or it returns a list
Raises == <<"raise", <<>>>>
Returned(list) == <<"return", list>>

\* pipeline.py:367-377: label -> <<x, y, confidence>>.  An item has the label that
\* _normalize_anchor_text gives its text ("none" for None), the centre of its box and
\* its confidence
RECURSIVE AnchorsOf(_)
AnchorsOf(items) ==
    LET add(so_far, item) ==
            IF item.label = "none" THEN so_far
            ELSE IF item.label \notin DOMAIN so_far \/ item.confidence > so_far[item.label][3]
                 THEN (item.label :> <<item.x, item.y, item.confidence>>) @@ so_far
            ELSE so_far
    IN IF items = <<>> THEN EmptyDict
       ELSE add(AnchorsOf(SubSeq(items, 1, Len(items) - 1)), items[Len(items)])

\* pipeline.py:360-378; found is what run_ocr_with_boxes does
_detect_anchors(found) == IF found = Raises THEN EmptyDict ELSE AnchorsOf(found[2])

\* sorted(values)
RECURSIVE SortedInts(_)
SortedInts(values) ==
    LET insert(v, rest) ==
            SelectSeq(rest, LAMBDA w : w < v) \o <<v>> \o SelectSeq(rest, LAMBDA w : w >= v)
    IN IF values = <<>> THEN <<>>
       ELSE insert(Head(values), SortedInts(Tail(values)))

\* _median that takes the lower of the two middle values of an even number of values
_median_low(values) ==
    LET of(sorted) ==
            IF Len(sorted) % 2 = 1 THEN 2 * sorted[(Len(sorted) \div 2) + 1]
            ELSE 2 * sorted[Len(sorted) \div 2]
    IN IF values = <<>> THEN 0 ELSE of(SortedInts(values))

\* pipeline.py:381-388, twice the median of whole numbers
_median(values) ==
    LET of(sorted) ==
            IF Len(sorted) % 2 = 1 THEN 2 * sorted[(Len(sorted) \div 2) + 1]
            ELSE sorted[Len(sorted) \div 2] + sorted[(Len(sorted) \div 2) + 1]
    IN IF values = <<>> THEN 0 ELSE of(SortedInts(values))

Abs(n) == IF n < 0 THEN -n ELSE n

RECURSIVE SumInts(_)
SumInts(values) == IF values = <<>> THEN 0 ELSE Head(values) + SumInts(Tail(values))

\* the None of _compute_anchor_shift and of best in _select_front_template
NoShift == [name |-> "none", dx |-> 0, dy |-> 0, error |-> 0, count |-> 0]

\* pipeline.py:391-414: None, or [dx, dy, error, count] with dx and dy in half pixels
\* and error the sum of the errors in half pixels (the code's error is error / count)
_compute_anchor_shift(detected, expected) ==
    LET labels == SelectSeq(ANCHOR_LABELS, LAMBDA l : l \in DOMAIN detected)
        dxs == Listed([i \in 1..Len(labels) |-> detected[labels[i]][1] - expected[labels[i]][1]])
        dys == Listed([i \in 1..Len(labels) |-> detected[labels[i]][2] - expected[labels[i]][2]])
        shift(dx, dy) ==
            [name |-> "none", dx |-> dx, dy |-> dy, count |-> Len(labels),
             error |-> SumInts(Listed([i \in 1..Len(labels) |->
                           Abs(2 * dxs[i] - dx) + Abs(2 * dys[i] - dy)]))]
    IN IF Len(labels) < 2 THEN NoShift ELSE shift(_median(dxs), _median(dys))

\* the crop [y1:y2, x1:x2] of the canvas has no pixel
CropEmpty(roi) ==
    \/ Min(CANVAS_WIDTH, roi.x + roi.w) <= Max(0, roi.x)
    \/ Min(CANVAS_HEIGHT, roi.y + roi.h) <= Max(0, roi.y)

\* pipeline.py:466-503: the best template or None.  texts[name][field] is what run_ocr
\* does for the region of the field in template name
SAMPLE_FIELDS == <<"full_name_line", "birth_date", "license_number">>

\* total and count of pipeline.py:474-496 for one template
TemplateScore(texts, name) ==
    LET counted == SelectSeq(SAMPLE_FIELDS,
                       LAMBDA f : /\ f \in DOMAIN FRONT_ROI_TEMPLATES[name]
                                  /\ ~CropEmpty(FRONT_ROI_TEMPLATES[name][f])
                                  /\ texts[name][f] # Raises
                                  /\ texts[name][f] # Returned(<<>>))
        score(f, picked) == _score_text(f, picked[1], picked[2])
    IN [count |-> Len(counted),
        total |-> SumInts(Listed([i \in 1..Len(counted) |->
                      score(counted[i], _pick_text_for_field(counted[i], texts[name][counted[i]][2]))]))]

\* best_score starts at -1.0; avg_score > best_score as a comparison of fractions
RECURSIVE BestScored(_, _)
BestScored(texts, n) ==
    LET next(best, this, name) ==
            IF this.count = 0 THEN best
            ELSE IF this.total * best.count > best.total * this.count
                 THEN [name |-> name, total |-> this.total, count |-> this.count]
            ELSE best
    IN IF n = 0 THEN [name |-> "none", total |-> -4000, count |-> 1]
       ELSE next(BestScored(texts, n - 1), TemplateScore(texts, TEMPLATE_ORDER[n]),
                 TEMPLATE_ORDER[n])

_score_front_templates(texts) == BestScored(texts, Len(TEMPLATE_ORDER)).name

\* score > best[0] for scores (count, -error / count)
BetterShift(this, best) ==
    \/ this.count > best.count
    \/ this.count = best.count /\ this.error * best.count < best.error * this.count

\* pipeline.py:425-435: None, or the best [name, dx, dy, error, count]
RECURSIVE BestAnchored(_, _)
BestAnchored(detected, n) ==
    LET next(best, shift, name) ==
            IF shift = NoShift THEN best
            ELSE IF best = NoShift \/ BetterShift(shift, best)
                 THEN [name |-> name, dx |-> shift.dx, dy |-> shift.dy,
                       error |-> shift.error, count |-> shift.count]
            ELSE best
    IN IF n = 0 THEN NoShift
       ELSE next(BestAnchored(detected, n - 1),
                 _compute_anchor_shift(detected, FRONT_ANCHORS[TEMPLATE_ORDER[n]]),
                 TEMPLATE_ORDER[n])

\* int(round(pixels + half_pixels / 2)): Python rounds a half to the even number
RoundShifted(pixels, half_pixels) ==
    LET floor == (2 * pixels + half_pixels) \div 2
    IN IF (2 * pixels + half_pixels) % 2 = 0 THEN floor
       ELSE IF floor % 2 = 0 THEN floor ELSE floor + 1

\* pipeline.py:444-450
ShiftedRois(rois, dx, dy) ==
    IF dx = 0 /\ dy = 0 THEN rois
    ELSE [key \in DOMAIN rois |->
             Region(Max(0, RoundShifted(rois[key].x, dx)), Max(0, RoundShifted(rois[key].y, dy)),
                    rois[key].w, rois[key].h)]

\* pipeline.py:417-452 after _detect_anchors: the template, its regions, the shift, and
\* whether _score_front_templates was called
_select_front_template(detected, texts) ==
    LET result(best, scored) ==
            [template |-> IF best # NoShift THEN best.name
                          ELSE IF scored # "none" THEN scored ELSE DEFAULT_FRONT_TEMPLATE,
             shift |-> IF best # NoShift THEN <<best.dx, best.dy>> ELSE <<0, 0>>,
             rois |-> IF best # NoShift
                      THEN ShiftedRois(FRONT_ROI_TEMPLATES[best.name], best.dx, best.dy)
                      ELSE FRONT_ROI_TEMPLATES[IF scored # "none" THEN scored
                                               ELSE DEFAULT_FRONT_TEMPLATE]]
    IN result(IF DOMAIN detected = {} THEN NoShift
              ELSE BestAnchored(detected, Len(TEMPLATE_ORDER)),
              IF DOMAIN detected = {} THEN _score_front_templates(texts) ELSE "none")

\* the boxes run_ocr_with_boxes can give: at most one box for each of the labels 1, 2
\* and 5, a second box of label 1 with a low confidence, a box without a label
AnchorItem(label, x, y, confidence) ==
    [label |-> label, x |-> x, y |-> y, confidence |-> confidence]

ANCHOR_BOXES ==
    {Raises} \cup
    {Returned(one \o two \o five \o more) :
        one \in {<<>>, <<AnchorItem("1", 490, 265, 900)>>, <<AnchorItem("1", 490, 255, 900)>>,
                 <<AnchorItem("1", 490, 0, 800)>>},
        two \in {<<>>, <<AnchorItem("2", 490, 325, 900)>>, <<AnchorItem("2", 491, 316, 700)>>,
                 <<AnchorItem("2", 493, 61, 800)>>},
        five \in {<<>>, <<AnchorItem("5", 490, 670, 900)>>, <<AnchorItem("5", 490, 525, 900)>>},
        more \in {<<>>, <<AnchorItem("1", 300, 300, 100)>>, <<AnchorItem("none", 10, 10, 990)>>,
                  <<AnchorItem("none", 10, 10, 990), AnchorItem("1", 300, 300, 950)>>}}

\* what run_ocr can do for the three sample regions of one template
TXT_LATIN_NAME == <<73, 86, 65, 78, 79, 86>>
TEMPLATE_READINGS ==
    {[full_name_line |-> Raises, birth_date |-> Raises, license_number |-> Raises],
     [full_name_line |-> Returned(<<>>), birth_date |-> Returned(<<>>),
      license_number |-> Returned(<<>>)],
     [full_name_line |-> Returned(<< <<TXT_NAME_LINE, 900>> >>),
      birth_date |-> Returned(<< <<TXT_BIRTH_BARE, 900>> >>),
      license_number |-> Returned(<< <<TXT_LICENSE_BARE, 900>> >>)],
     [full_name_line |-> Returned(<< <<TXT_LATIN_NAME, 900>> >>),
      birth_date |-> Returned(<< <<TXT_NAME, 950>> >>), license_number |-> Raises],
     [full_name_line |-> Returned(<< <<<<>>, 0>> >>), birth_date |-> Returned(<< <<<<>>, 0>> >>),
      license_number |-> Returned(<< <<<<>>, 0>> >>)]}

USE_ANCHORS_SETTINGS ==
    {[use_anchors |-> u, env_use_anchors |-> v] :
        u \in {None, Bool(FALSE)}, v \in {None, Str(<<79, 70, 70>>)}}

\* _process_side at pipeline.py:576: the front image is aligned and preprocessed
TemplateInit ==
    /\ pc = "detect_anchors"
    /\ cv2_available = TRUE /\ strftime_pads_year = FALSE
    /\ front_bytes = "image" /\ back_bytes = "none"
    /\ warnings = <<>> /\ images = <<[role |-> "front", stored |-> TRUE]>>
    /\ front_rois = EmptyDict /\ back_rois = EmptyDict
    /\ front_processed_variants = FALSE
    /\ front_roi_text = <<>> /\ back_roi_text = <<>>
    /\ front_context_text = <<>>
    /\ parsed_front = EmptyDict /\ region_parsed = EmptyDict
    /\ fallback_text = <<>> /\ fallback_conf = 0
    /\ calls = {<<"decode", "front">>, <<"store", "front">>, <<"align", "front">>}
    /\ raised = "none"
    /\ response = NoResponse
    /\ status_fields = EmptyDict
    /\ status_result = <<"none", {}, {}>>
    /\ call_arg = None /\ call_result = None /\ call_again = None
    /\ AlignIdle /\ EngineIdle /\ RoiIdle /\ DictIdle
    /\ anchor_settings \in USE_ANCHORS_SETTINGS
    /\ boxes \in ANCHOR_BOXES
    /\ template_texts \in [{"v2", "v1"} -> TEMPLATE_READINGS]
    /\ anchors = EmptyDict /\ selected = <<>> /\ scoring_calls = 0

\* pipeline.py:421
DetectAnchors ==
    /\ pc = "detect_anchors"
    /\ anchors' = (IF _should_use_anchors(anchor_settings) THEN _detect_anchors(boxes)
                   ELSE EmptyDict)
    /\ pc' = "select_front_template"
    /\ UNCHANGED <<align_vars, engine_vars, roi_vars, dict_vars, cv2_available, strftime_pads_year, front_bytes,
                   back_bytes, warnings, images, front_rois, back_rois,
                   front_processed_variants, front_roi_text, back_roi_text,
                   front_context_text, parsed_front, region_parsed, fallback_text,
                   fallback_conf, calls, raised, response, status_fields, status_result,
                   call_arg, call_result, call_again,
                   anchor_settings, boxes, template_texts, selected, scoring_calls>>

\* pipeline.py:422-452
SelectFrontTemplate ==
    /\ pc = "select_front_template"
    /\ selected' = _select_front_template(anchors, template_texts)
    /\ scoring_calls' = scoring_calls + (IF DOMAIN anchors = {} THEN 1 ELSE 0)
    /\ pc' = "template_selected"
    /\ UNCHANGED <<align_vars, engine_vars, roi_vars, dict_vars, cv2_available, strftime_pads_year, front_bytes,
                   back_bytes, warnings, images, front_rois, back_rois,
                   front_processed_variants, front_roi_text, back_roi_text,
                   front_context_text, parsed_front, region_parsed, fallback_text,
                   fallback_conf, calls, raised, response, status_fields, status_result,
                   call_arg, call_result, call_again,
                   anchor_settings, boxes, template_texts, anchors>>

TemplateNext == DetectAnchors \/ SelectFrontTemplate

TemplateSpec == TemplateInit /\ [][TemplateNext]_vars

----------------------------------------------------------------------------
(* pipeline.py:70-104 and 224-277: the recognition of the regions *)

\* how many preprocessed images the search goes through (preprocess.py:45 returns six)
NumProcessed == 2

\* pipeline.py:73-77
_expand(r, dx, dy) == Region(r.x - dx, r.y - dy, r.w + 2 * dx, r.h + 2 * dy)
_shift(r, dx, dy) == Region(r.x + dx, r.y + dy, r.w, r.h)

\* pipeline.py:100-104: one region for each (x, y, w, h), in the order of the first ones
RECURSIVE Unique(_)
Unique(variants) ==
    IF variants = <<>> THEN <<>>
    ELSE <<Head(variants)>> \o Unique(SelectSeq(Tail(variants), LAMBDA v : v # Head(variants)))

\* pipeline.py:70-104
_roi_variants(roi, field) ==
    Unique(<<roi, _expand(roi, 10, 8)>>
           \o (IF field \in NAME_FIELDS
               THEN <<_shift(roi, 0, -12), _shift(roi, 0, 12), _expand(roi, 18, 10)>>
               ELSE <<>>)
           \o (IF field \in DATE_FIELDS
               THEN <<_shift(roi, 0, -8), _shift(roi, 0, 8), _expand(roi, 14, 8)>>
               ELSE <<>>)
           \o (IF field = "license_number"
               THEN <<_shift(roi, 0, 10), _expand(roi, 20, 10)>>
               ELSE <<>>)
           \o (IF field = "license_issued_by" THEN <<_expand(roi, 20, 12)>> ELSE <<>>))

\* dict[key] = value
SetItem(dict, key, value) ==
    [k \in DOMAIN dict \cup {key} |-> IF k = key THEN value ELSE dict[k]]

\* what run_ocr does for a crop: it raises, or returns a list of (text, confidence)
ROI_READINGS ==
    {Raises, Returned(<<>>), Returned(<< <<<<>>, 0>> >>),
     Returned(<< <<TXT_SURNAME, 900>> >>), Returned(<< <<TXT_SURNAME, 700>> >>),
     Returned(<< <<TXT_BIRTH_BARE, 900>> >>), Returned(<< <<TXT_LICENSE_BARE, 950>> >>)}

\* the regions of template v2 as they are, and moved down by 250 pixels, which puts
\* the license number below the image
ROI_LISTS ==
    {<< <<"surname", Region(520, 240, 780, 60)>>, <<"birth_date", Region(520, 400, 300, 55)>> >>,
     << <<"license_number", Region(520, 900, 420, 60)>>,
        <<"license_issued_by", Region(520, 810, 520, 70)>> >>,
     << <<"license_number", Region(520, 650, 420, 60)>>,
        <<"driving_since", Region(520, 520, 300, 50)>> >>}

\* _process_side at pipeline.py:580 or 589: the regions of an aligned image are read
RoiInit ==
    /\ pc = "ocr_roi"
    /\ cv2_available = TRUE /\ strftime_pads_year = FALSE
    /\ front_bytes = "image" /\ back_bytes = "none"
    /\ warnings = <<>> /\ images = <<[role |-> "front", stored |-> TRUE]>>
    /\ front_rois = EmptyDict /\ back_rois = EmptyDict
    /\ front_processed_variants = FALSE
    /\ front_roi_text = <<>> /\ back_roi_text = <<>>
    /\ front_context_text = <<>>
    /\ parsed_front = EmptyDict /\ region_parsed = EmptyDict
    /\ fallback_text = <<>> /\ fallback_conf = 0
    /\ calls = {<<"decode", "front">>, <<"store", "front">>, <<"align", "front">>}
    /\ raised = "none"
    /\ response = NoResponse
    /\ status_fields = EmptyDict
    /\ status_result = <<"none", {}, {}>>
    /\ call_arg = None /\ call_result = None /\ call_again = None
    /\ AlignIdle /\ EngineIdle /\ StepIdle /\ DictIdle
    /\ processed_variants = NumProcessed
    /\ rois_arg \in ROI_LISTS
    /\ roi_index = 1 /\ variant_index = 0 /\ image_index = 0
    /\ best_candidate = <<>> /\ results = EmptyDict
    /\ ocr_calls = <<>> /\ ocr_texts = {} /\ first_pass = EmptyDict

\* the same where an empty result ends the call with the regions read so far
Finish_abort(name, result) ==
    /\ results' = (IF result = Roi(<<>>, 0) THEN results ELSE SetItem(results, name, result))
    /\ roi_index' = roi_index + 1
    /\ variant_index' = 0 /\ image_index' = 0 /\ best_candidate' = <<>>
    /\ pc' = IF roi_index = Len(rois_arg) \/ result = Roi(<<>>, 0) THEN "ocr_rois_done"
             ELSE "ocr_roi"

\* results[name] = result and the next turn of the loop of pipeline.py:226, or the return
\* of pipeline.py:277 after the last region
Finish(name, result) ==
    /\ results' = SetItem(results, name, result)
    /\ roi_index' = roi_index + 1
    /\ variant_index' = 0 /\ image_index' = 0 /\ best_candidate' = <<>>
    /\ pc' = IF roi_index = Len(rois_arg) THEN "ocr_rois_done" ELSE "ocr_roi"

\* pipeline.py:227-252 with every region searched: the first candidate is never accepted
OcrRoiBase_search ==
    /\ pc = "ocr_roi"
    /\ LET name == rois_arg[roi_index][1]
           first(picked) ==
               /\ first_pass' = SetItem(first_pass, name, picked)
               /\ best_candidate' = <<_score_text(name, picked[1], picked[2]),
                                      picked[1], picked[2]>>
               /\ variant_index' = 1 /\ image_index' = 1
               /\ pc' = "ocr_roi_variant"
               /\ UNCHANGED <<results, roi_index>>
       IN IF CropEmpty(rois_arg[roi_index][2])
          THEN /\ Finish(name, Roi(<<>>, 0))
               /\ UNCHANGED <<ocr_calls, ocr_texts, first_pass>>
          ELSE \E reading \in ROI_READINGS :
                  /\ ocr_calls' = Append(ocr_calls, <<name, 0, 0>>)
                  /\ IF reading = Raises
                     THEN /\ Finish(name, Roi(<<>>, 0))
                          /\ UNCHANGED <<ocr_texts, first_pass>>
                     ELSE /\ ocr_texts' = (IF reading[2] # <<>> THEN ocr_texts \cup {name}
                                           ELSE ocr_texts)
                          /\ first(_pick_text_for_field(name, reading[2]))
    /\ UNCHANGED <<align_vars, engine_vars, step_vars, dict_vars, cv2_available,
                   strftime_pads_year,
                   front_bytes, back_bytes, warnings, images, front_rois, back_rois,
                   front_processed_variants, front_roi_text, back_roi_text,
                   front_context_text, parsed_front, region_parsed, fallback_text,
                   fallback_conf, calls, raised, response, status_fields, status_result,
                   call_arg, call_result, call_again, processed_variants, rois_arg>>

\* pipeline.py:227-252: the crop of a region from the first preprocessed image
OcrRoiBase ==
    /\ pc = "ocr_roi"
    /\ LET name == rois_arg[roi_index][1]
           first(picked) ==
               /\ first_pass' = SetItem(first_pass, name, picked)
               /\ IF _is_good_enough(name, picked[1], picked[2])
                  THEN Finish(name, Roi(picked[1], picked[2]))
                  ELSE /\ best_candidate' = <<_score_text(name, picked[1], picked[2]),
                                             picked[1], picked[2]>>
                       /\ variant_index' = 1 /\ image_index' = 1
                       /\ pc' = "ocr_roi_variant"
                       /\ UNCHANGED <<results, roi_index>>
       IN IF CropEmpty(rois_arg[roi_index][2])
          THEN /\ Finish(name, Roi(<<>>, 0))
               /\ UNCHANGED <<ocr_calls, ocr_texts, first_pass>>
          ELSE \E reading \in ROI_READINGS :
                  /\ ocr_calls' = Append(ocr_calls, <<name, 0, 0>>)
                  /\ IF reading = Raises
                     THEN /\ Finish(name, Roi(<<>>, 0))
                          /\ UNCHANGED <<ocr_texts, first_pass>>
                     ELSE /\ ocr_texts' = (IF reading[2] # <<>> THEN ocr_texts \cup {name}
                                           ELSE ocr_texts)
                          /\ first(_pick_text_for_field(name, reading[2]))
    /\ UNCHANGED <<align_vars, engine_vars, step_vars, dict_vars, cv2_available,
                   strftime_pads_year,
                   front_bytes, back_bytes, warnings, images, front_rois, back_rois,
                   front_processed_variants, front_roi_text, back_roi_text,
                   front_context_text, parsed_front, region_parsed, fallback_text,
                   fallback_conf, calls, raised, response, status_fields, status_result,
                   call_arg, call_result, call_again, processed_variants, rois_arg>>

\* pipeline.py:258-276: one turn of the inner loop, and after the last one the result
OcrRoiVariant ==
    /\ pc = "ocr_roi_variant"
    /\ LET name == rois_arg[roi_index][1]
           variants == _roi_variants(rois_arg[roi_index][2], name)
           last == variant_index = Len(variants) /\ image_index = processed_variants
           turn(kept) ==
               IF last THEN Finish(name, Roi(kept[2], kept[3]))
               ELSE /\ best_candidate' = kept
                    /\ image_index' = (IF image_index = processed_variants THEN 1
                                       ELSE image_index + 1)
                    /\ variant_index' = (IF image_index = processed_variants
                                         THEN variant_index + 1 ELSE variant_index)
                    /\ UNCHANGED <<results, roi_index, pc>>
           candidate(picked) ==
               IF _score_text(name, picked[1], picked[2]) > best_candidate[1]
               THEN <<_score_text(name, picked[1], picked[2]), picked[1], picked[2]>>
               ELSE best_candidate
       IN IF CropEmpty(variants[variant_index])
          THEN /\ turn(best_candidate)
               /\ UNCHANGED <<ocr_calls, ocr_texts>>
          ELSE \E reading \in ROI_READINGS :
                  /\ ocr_calls' = Append(ocr_calls, <<name, variant_index, image_index>>)
                  /\ IF reading = Raises \/ reading = Returned(<<>>)
                     THEN /\ turn(best_candidate)
                          /\ UNCHANGED ocr_texts
                     ELSE /\ ocr_texts' = ocr_texts \cup {name}
                          /\ turn(candidate(_pick_text_for_field(name, reading[2])))
    /\ UNCHANGED <<align_vars, engine_vars, step_vars, dict_vars, cv2_available,
                   strftime_pads_year,
                   front_bytes, back_bytes, warnings, images, front_rois, back_rois,
                   front_processed_variants, front_roi_text, back_roi_text,
                   front_context_text, parsed_front, region_parsed, fallback_text,
                   fallback_conf, calls, raised, response, status_fields, status_result,
                   call_arg, call_result, call_again, processed_variants, rois_arg, first_pass>>

RoiNext == OcrRoiBase \/ OcrRoiVariant

RoiSpec == RoiInit /\ [][RoiNext]_vars

----------------------------------------------------------------------------
(* pipeline.py:134-146: direct calls of _is_good_enough *)

\* И followed by VANOV: one Cyrillic letter in six, a name quality of 0.167
TXT_MIXED_NAME == <<1048, 86, 65, 78, 79, 86>>

\* ИВАNOV: three Cyrillic letters in six, a name quality of 0.5
TXT_HALF_NAME == <<1048, 1042, 1040, 78, 79, 86>>

\* 123456789O, with the letter O for the last digit, and a number of eleven digits
TXT_LICENSE_LETTER == <<49, 50, 51, 52, 53, 54, 55, 56, 57, 79>>
TXT_LICENSE_LONG == <<49, 50, 51, 52, 53, 54, 55, 56, 57, 48, 49>>

GOOD_FIELDS ==
    {"surname", "name", "patronymic", "full_name_line", "birth_date", "driving_since",
     "license_number", "license_issued_by", "raw_text"}

GOOD_TEXTS ==
    {<<>>, TXT_SURNAME, TXT_MIXED_NAME, TXT_HALF_NAME, TXT_LATIN_NAME, TXT_BIRTH_BARE,
     TXT_BIRTH_LABELLED, TXT_LICENSE_BARE, TXT_LICENSE_LABELLED, TXT_LICENSE_LETTER,
     TXT_LICENSE_LONG, TXT_ISSUER}

GOOD_CONFS == {0, 699, 700, 749, 750, 779, 780, 799, 800, 1000}

\* a call _is_good_enough(field, text, conf)
ScoreInit ==
    /\ AlignIdle /\ EngineIdle /\ StepIdle /\ RoiIdle /\ DictIdle
    /\ cv2_available = TRUE /\ strftime_pads_year = FALSE
    /\ front_bytes = "none" /\ back_bytes = "none"
    /\ warnings = <<>> /\ images = <<>>
    /\ front_rois = EmptyDict /\ back_rois = EmptyDict
    /\ front_processed_variants = FALSE
    /\ front_roi_text = <<>> /\ back_roi_text = <<>>
    /\ front_context_text = <<>>
    /\ parsed_front = EmptyDict /\ region_parsed = EmptyDict
    /\ fallback_text = <<>> /\ fallback_conf = 0
    /\ calls = {} /\ raised = "none"
    /\ response = NoResponse
    /\ status_fields = EmptyDict
    /\ status_result = <<"none", {}, {}>>
    /\ call_result = None /\ call_again = None
    /\ pc = "is_good_enough"
    /\ call_arg \in GOOD_FIELDS \X GOOD_TEXTS \X GOOD_CONFS

\* pipeline.py:134-146
IsGoodEnough ==
    /\ pc = "is_good_enough"
    /\ call_result' = Bool(_is_good_enough(call_arg[1], call_arg[2], call_arg[3]))
    /\ pc' = "good_enough"
    /\ UNCHANGED <<align_vars, engine_vars, step_vars, roi_vars, dict_vars, cv2_available,
                   strftime_pads_year, front_bytes, back_bytes, warnings,
                   images, front_rois, back_rois, front_processed_variants, front_roi_text,
                   back_roi_text, front_context_text, parsed_front, region_parsed,
                   fallback_text, fallback_conf, calls, raised, response, status_fields,
                   status_result, call_arg, call_again>>

ScoreNext == IsGoodEnough

ScoreSpec == ScoreInit /\ [][ScoreNext]_vars

----------------------------------------------------------------------------
(* parse.py:196-240: the name dictionary of the process and the threads that use it *)

\* a dict of words, in the order of their insertion
Dict(words) == <<"dict", words>>

\* the file at OCR_NAME_DICTIONARY_PATH holds the one word ИВАНОВ
DICTIONARY_FILE == Dict(<<TXT_SURNAME>>)

\* the texts handed to _apply_name_dictionary: '', 'ИВАНОВ' and 'иванов'
DICT_TEXTS == {<<>>, TXT_SURNAME, <<1080, 1074, 1072, 1085, 1086, 1074>>}

\* parse.py:236-240 with the dictionary that _load_name_dictionary returned.  Every
\* token of DICT_TEXTS is the word of the file once in upper case (parse.py:225)
Corrected(text, dictionary) ==
    IF dictionary[2] = <<>> THEN text
    ELSE Join(Listed([i \in 1..Len(Split(text)) |-> Upper(Split(text)[i])]), <<32>>)

\* request threads of one process before the first use of the dictionary
DictInit ==
    /\ pc = "threads"
    /\ cv2_available = TRUE /\ strftime_pads_year = FALSE
    /\ front_bytes = "none" /\ back_bytes = "none"
    /\ warnings = <<>> /\ images = <<>>
    /\ front_rois = EmptyDict /\ back_rois = EmptyDict
    /\ front_processed_variants = FALSE
    /\ front_roi_text = <<>> /\ back_roi_text = <<>>
    /\ front_context_text = <<>>
    /\ parsed_front = EmptyDict /\ region_parsed = EmptyDict
    /\ fallback_text = <<>> /\ fallback_conf = 0
    /\ calls = {} /\ raised = "none"
    /\ response = NoResponse
    /\ status_fields = EmptyDict
    /\ status_result = <<"none", {}, {}>>
    /\ call_arg = None /\ call_result = None /\ call_again = None
    /\ AlignIdle /\ EngineIdle /\ StepIdle /\ RoiIdle
    /\ dictionary_global = None
    /\ dictionary_path \in BOOLEAN
    /\ file_readable \in BOOLEAN
    /\ load_data = [t \in THREADS |-> None]
    /\ assignments = <<>>

\* a request thread calls _apply_name_dictionary(text)
ApplyCall(t) ==
    /\ thread_pc[t] = "idle"
    /\ Len(thread_results[t]) < MaxCalls
    /\ \E text \in DICT_TEXTS :
          thread_call' = [thread_call EXCEPT ![t] = <<"_apply_name_dictionary", text>>]
    /\ Goto(t, "apply")
    /\ UNCHANGED <<extract_vars, align_vars, step_vars, roi_vars, dict_vars, PaddleOCR, YOLO,
                   _OCR_INSTANCE, _OCR_LOCK, _MODEL, _MODEL_LOCK, constructor_calls>>

\* parse.py:233-235: an empty text is returned as it is, without the dictionary
ApplyEntry(t) ==
    /\ thread_pc[t] = "apply"
    /\ IF thread_call[t][2] = <<>> THEN Returns(t, thread_call[t][2])
       ELSE Goto(t, "load_check")
    /\ UNCHANGED <<extract_vars, align_vars, step_vars, roi_vars, dict_vars, PaddleOCR, YOLO,
                   _OCR_INSTANCE, _OCR_LOCK, _MODEL, _MODEL_LOCK, thread_call,
                   constructor_calls>>

\* parse.py:198-199: the test of the global
LoadCheck(t) ==
    /\ thread_pc[t] = "load_check"
    /\ IF dictionary_global # None THEN Goto(t, "load_return") ELSE Goto(t, "load_path")
    /\ UNCHANGED <<extract_vars, align_vars, step_vars, roi_vars, dict_vars, PaddleOCR, YOLO,
                   _OCR_INSTANCE, _OCR_LOCK, _MODEL, _MODEL_LOCK, thread_call,
                   constructor_calls>>

\* parse.py:200-203: no path in the environment, the global becomes an empty dict
LoadUnset(t) ==
    /\ thread_pc[t] = "load_path" /\ ~dictionary_path
    /\ dictionary_global' = Dict(<<>>)
    /\ assignments' = Append(assignments, Dict(<<>>))
    /\ Goto(t, "load_return")
    /\ UNCHANGED <<extract_vars, align_vars, step_vars, roi_vars, dictionary_path,
                   file_readable, load_data, PaddleOCR, YOLO,
                   _OCR_INSTANCE, _OCR_LOCK, _MODEL, _MODEL_LOCK, thread_call,
                   constructor_calls>>

\* parse.py:204-219: the file is read into the local data; an error leaves data empty
LoadRead(t) ==
    /\ thread_pc[t] = "load_path" /\ dictionary_path
    /\ load_data' = [load_data EXCEPT ![t] = IF file_readable THEN DICTIONARY_FILE
                                            ELSE Dict(<<>>)]
    /\ Goto(t, "load_assign")
    /\ UNCHANGED <<extract_vars, align_vars, step_vars, roi_vars, dictionary_global,
                   dictionary_path, file_readable, assignments, PaddleOCR, YOLO,
                   _OCR_INSTANCE, _OCR_LOCK, _MODEL, _MODEL_LOCK, thread_call,
                   constructor_calls>>

\* parse.py:220
LoadAssign(t) ==
    /\ thread_pc[t] = "load_assign"
    /\ dictionary_global' = load_data[t]
    /\ assignments' = Append(assignments, load_data[t])
    /\ Goto(t, "load_return")
    /\ UNCHANGED <<extract_vars, align_vars, step_vars, roi_vars, dictionary_path,
                   file_readable, load_data, PaddleOCR, YOLO,
                   _OCR_INSTANCE, _OCR_LOCK, _MODEL, _MODEL_LOCK, thread_call,
                   constructor_calls>>

\* parse.py:199, 203 or 221: the global is returned; then parse.py:237-240
ApplyReturn(t) ==
    /\ thread_pc[t] = "load_return"
    /\ Returns(t, Corrected(thread_call[t][2], dictionary_global))
    /\ UNCHANGED <<extract_vars, align_vars, step_vars, roi_vars, dict_vars, PaddleOCR, YOLO,
                   _OCR_INSTANCE, _OCR_LOCK, _MODEL, _MODEL_LOCK, thread_call,
                   constructor_calls>>

DictNext ==
    \E t \in THREADS :
        \/ ApplyCall(t) \/ ApplyEntry(t) \/ LoadCheck(t) \/ LoadUnset(t) \/ LoadRead(t)
        \/ LoadAssign(t) \/ ApplyReturn(t)

DictSpec == DictInit /\ [][DictNext]_vars

----------------------------------------------------------------------------
(* doc_detect.py:20-29 and keypoint_detect.py:30-39: the order of the four corners *)

\* np.argmin and np.argmax: the first index of the least and of the greatest value
ArgMin(values) ==
    CHOOSE i \in 1..Len(values) :
        /\ \A j \in 1..Len(values) : values[i] <= values[j]
        /\ \A j \in 1..(i - 1) : values[j] > values[i]
ArgMax(values) ==
    CHOOSE i \in 1..Len(values) :
        /\ \A j \in 1..Len(values) : values[i] >= values[j]
        /\ \A j \in 1..(i - 1) : values[j] < values[i]

\* doc_detect.py:20-29, the same text as keypoint_detect.py:30-39.  pts is a list of
\* points <<x, y>>; the result is <<top-left, top-right, bottom-right, bottom-left>>
_order_points(pts) ==
    LET s == Listed([i \in 1..Len(pts) |-> pts[i][1] + pts[i][2]])
        diff == Listed([i \in 1..Len(pts) |-> pts[i][2] - pts[i][1]])
    IN <<pts[ArgMin(s)], pts[ArgMin(diff)], pts[ArgMax(s)], pts[ArgMax(diff)]>>

\* the coordinates of the corners handed to _order_points
CORNER_COORDINATES == {0, 5, 10}
CORNERS == CORNER_COORDINATES \X CORNER_COORDINATES

\* four distinct points, in any order: the box of cv2.boxPoints (doc_detect.py:62-63) or
\* the first four keypoints of the detector (keypoint_detect.py:81, 107)
CORNER_LISTS ==
    {pts \in [1..4 -> CORNERS] : \A i, j \in 1..4 : i # j => pts[i] # pts[j]}

\* a call _order_points(pts)
OrderInit ==
    /\ AlignIdle /\ EngineIdle /\ StepIdle /\ RoiIdle /\ DictIdle
    /\ cv2_available = TRUE /\ strftime_pads_year = FALSE
    /\ front_bytes = "none" /\ back_bytes = "none"
    /\ warnings = <<>> /\ images = <<>>
    /\ front_rois = EmptyDict /\ back_rois = EmptyDict
    /\ front_processed_variants = FALSE
    /\ front_roi_text = <<>> /\ back_roi_text = <<>>
    /\ front_context_text = <<>>
    /\ parsed_front = EmptyDict /\ region_parsed = EmptyDict
    /\ fallback_text = <<>> /\ fallback_conf = 0
    /\ calls = {} /\ raised = "none"
    /\ response = NoResponse
    /\ status_fields = EmptyDict
    /\ status_result = <<"none", {}, {}>>
    /\ call_result = None /\ call_again = None
    /\ pc = "order_points"
    /\ call_arg \in CORNER_LISTS

\* doc_detect.py:63 and keypoint_detect.py:107
OrderPoints ==
    /\ pc = "order_points"
    /\ call_result' = _order_points(call_arg)
    /\ pc' = "ordered"
    /\ UNCHANGED <<align_vars, engine_vars, step_vars, roi_vars, dict_vars, cv2_available,
                   strftime_pads_year, front_bytes, back_bytes, warnings,
                   images, front_rois, back_rois, front_processed_variants, front_roi_text,
                   back_roi_text, front_context_text, parsed_front, region_parsed,
                   fallback_text, fallback_conf, calls, raised, response, status_fields,
                   status_result, call_arg, call_again>>

OrderNext == OrderPoints

OrderSpec == OrderInit /\ [][OrderNext]_vars

----------------------------------------------------------------------------
(* Properties of the responses of extract *)

\* a value that counts as missing: null, the empty string, the empty list
Empty(value) == value \in {None, Str(<<>>), List(<<>>)}

Range(list) == {list[i] : i \in 1..Len(list)}

SEVEN_FIELDS ==
    {"full_name", "birth_date", "license_number", "license_issued_by", "driving_since",
     "categories", "special_marks"}

THREE_REQUIRED == {"full_name", "birth_date", "license_number"}

NoInput == front_bytes \in {"none", "empty"} /\ back_bytes \in {"none", "empty"}

\* C1: in every response of extract, whatever its status, missing_fields lists exactly
\* the fields whose value in the field map is null, "" or []: each of them once, and no
\* field that has a value.
C1_MissingFieldsExact ==
    pc = "done" =>
        /\ Range(response.missing_fields) =
               {name \in DOMAIN response.fields : Empty(response.fields[name].value)}
        /\ Len(response.missing_fields) = Cardinality(Range(response.missing_fields))

\* a partial response in which some fields are missing and others are not
C1_Witness ==
    /\ pc = "done" /\ response.status = "partial"
    /\ response.missing_fields # <<>>
    /\ Range(response.missing_fields) # SEVEN_FIELDS

\* C2 as stated: a response that is not failed is ok if and only if no field of its
\* field map is missing and no present field has a confidence below 0.75, and is
\* partial otherwise.
C2_OkIffNoFieldMissingOrLow ==
    (pc = "done" /\ response.status # "failed") =>
        /\ response.status \in {"ok", "partial"}
        /\ response.status = "ok" <=>
               \A name \in DOMAIN response.fields :
                   /\ ~Empty(response.fields[name].value)
                   /\ response.fields[name].confidence >= 750

\* C2 amended: a response that is not failed is ok if and only if each of the three
\* required fields full_name, birth_date, license_number has a value and a confidence of
\* at least 0.75, and is partial otherwise; the other four fields have no part in it.
C2_OkIffRequiredPresentAndConfident ==
    (pc = "done" /\ response.status # "failed") =>
        /\ response.status \in {"ok", "partial"}
        /\ response.status = "ok" <=>
               \A name \in THREE_REQUIRED :
                   /\ ~Empty(response.fields[name].value)
                   /\ response.fields[name].confidence >= 750

\* an ok response that lacks a field outside the required three
C2_Witness ==
    /\ pc = "done" /\ response.status = "ok"
    /\ \E name \in SEVEN_FIELDS \ THREE_REQUIRED : Empty(response.fields[name].value)

\* C3: determine_status over the three required fields with the threshold 0.75: all
\* three present with confidence >= 0.75 gives ok with both lists empty; a required
\* field present with a confidence below 0.75 gives partial with the field under
\* low-confidence; a required field with a null or empty value gives partial with the
\* field under missing and not under low-confidence.
C3_DetermineStatus ==
    pc = "status_done" =>
        LET present(name) ==
                name \in DOMAIN status_fields /\ ~Empty(status_fields[name].value)
            status == status_result[1]
            missing == status_result[2]
            low_conf == status_result[3]
        IN /\ (\A name \in THREE_REQUIRED :
                   present(name) /\ status_fields[name].confidence >= 750)
                  => status = "ok" /\ missing = {} /\ low_conf = {}
           /\ \A name \in THREE_REQUIRED :
                  (present(name) /\ status_fields[name].confidence < 750)
                      => status = "partial" /\ name \in low_conf
           /\ \A name \in THREE_REQUIRED :
                  ~present(name)
                      => status = "partial" /\ name \in missing /\ name \notin low_conf

\* a result with a field under missing and another under low-confidence
C3_Witness ==
    pc = "status_done" /\ status_result[2] # {} /\ status_result[3] # {}

\* C4: called with neither front nor back bytes (each None or empty), extract answers
\* failed with at least one warning, having made no decode, storage, alignment or
\* recognition call, and with an empty images list.
C4_NoImagesFailsAtOnce ==
    (pc = "done" /\ NoInput) =>
        /\ response.status = "failed"
        /\ Len(response.warnings) >= 1
        /\ calls = {}
        /\ response.images = <<>>

\* the answer to empty front bytes and no back bytes
C4_Witness ==
    /\ pc = "done" /\ front_bytes = "empty" /\ back_bytes = "none"
    /\ response.status = "failed"

BytesOf(side) == IF side = "front" THEN front_bytes ELSE back_bytes
OtherSide(side) == IF side = "front" THEN "back" ELSE "front"

\* the decoder was given the bytes of the side and returned no image (pipeline.py:555-556)
DecodeFailed(side) ==
    BytesOf(side) = "garbage" /\ cv2_available /\ <<"decode", side>> \in calls

\* no character was read from either side, by the region pass or by the fallback pass
NoText == front_roi_text = <<>> /\ fallback_text = <<>> /\ back_roi_text = <<>>

C6_FailedOnlyWithoutInputOrText ==
    pc = "done" =>
        /\ response.status \in {"ok", "partial", "failed"}
        /\ response.status = "failed" =>
               \/ NoInput
               \/ \A side \in {"front", "back"} : BytesOf(side) # "image"
               \/ NoText

\* C6 amended: the status is failed only when no image was provided, or neither
\* supplied image could be decoded, or no character of text was read from the two sides
\* together, or the processing of a side raised an exception (OpenCV or numpy missing,
\* or any other error inside it), which always gives failed, also when text was read
\* from the other side before; in every other run the status is ok or partial.
C6_FailedOnlyWithoutInputOrTextOrRaised ==
    pc = "done" =>
        /\ response.status \in {"ok", "partial", "failed"}
        /\ response.status = "failed" =>
               \/ NoInput
               \/ \A side \in {"front", "back"} : BytesOf(side) # "image"
               \/ NoText
               \/ raised # "none"
        /\ raised # "none" => response.status = "failed"

\* a failed response after the front was read and the back raised
C6_Witness ==
    /\ pc = "done" /\ response.status = "failed"
    /\ raised # "none" /\ front_roi_text # <<>>

\* C7: in every failed response each of the seven fields has its default value (null,
\* [] for categories) with confidence 0, and missing_fields lists the seven field names.
C7_FailedHasDefaults ==
    (pc = "done" /\ response.status = "failed") =>
        /\ DOMAIN response.fields = SEVEN_FIELDS
        /\ \A name \in SEVEN_FIELDS :
               response.fields[name] =
                   [value |-> IF name = "categories" THEN List(<<>>) ELSE None,
                    confidence |-> 0]
        /\ Range(response.missing_fields) = SEVEN_FIELDS
        /\ Len(response.missing_fields) = 7

\* a failed response for an image that was decoded and stored but gave no text
C7_Witness ==
    /\ pc = "done" /\ response.status = "failed"
    /\ raised = "none" /\ response.images # <<>>

\* the fallback full-image pass was run on the front side
FallbackRan == <<"ocr_full", "front">> \in calls

\* the field map of the response has, for the field, what the region-based parse gave
KeptFromRegions(name) ==
    response.fields[name] =
        [value |-> region_parsed[name][1], confidence |-> region_parsed[name][2]]

\* C8 as stated: when the fallback pass ran, every front field that had a value after
\* the region-based parse has exactly that value and confidence in the final field map.
C8_FallbackKeepsEveryRegionValue ==
    (pc = "done" /\ FallbackRan) =>
        \A name \in DOMAIN region_parsed :
            ~Empty(region_parsed[name][1]) => KeptFromRegions(name)

\* C8 amended: when the fallback pass ran, every front field other than driving_since
\* that had a value after the region-based parse has exactly that value and confidence
\* in the final field map; driving_since has them too unless the text of the regions
\* joined with the fallback text holds a 4B (valid until) date that is not later than
\* it, in which case the region's driving_since is dropped and the fallback's takes its
\* place.
C8_FallbackKeepsRegionValuesBut4B ==
    (pc = "done" /\ FallbackRan) =>
        \A name \in DOMAIN region_parsed :
            ~Empty(region_parsed[name][1]) =>
                \/ KeptFromRegions(name)
                \/ /\ name = "driving_since"
                   /\ LET valid_until == _extract_marker_date(front_context_text, {<<52, 66>>})
                      IN /\ valid_until # None
                         /\ StrLE(valid_until[2], region_parsed[name][1][2])

\* a fallback pass that kept a value of the regions and filled a field they left missing
C8_Witness ==
    /\ pc = "done" /\ FallbackRan /\ fallback_text # <<>>
    /\ \E name \in DOMAIN region_parsed :
           ~Empty(region_parsed[name][1]) /\ KeptFromRegions(name)
    /\ \E name \in DOMAIN region_parsed :
           Empty(region_parsed[name][1]) /\ ~Empty(response.fields[name].value)

\* C9: the fallback full-image pass is run exactly when the front image was supplied and
\* decoded and, the region pass and its parse being done, a required field is missing
\* or the regions gave no text; it is never run on the back side, nor when the front is
\* absent or cannot be decoded.
C9_FallbackExactlyWhenNeeded ==
    pc = "done" =>
        /\ FallbackRan <=>
               /\ front_bytes = "image" /\ cv2_available /\ raised = "none"
               /\ \/ front_roi_text = <<>>
                  \/ \E name \in THREE_REQUIRED : Empty(region_parsed[name][1])
        /\ <<"ocr_full", "back">> \notin calls
        /\ front_bytes # "image" => ~FallbackRan

\* a run of the fallback pass on the front while the back was read too
C9_Witness ==
    /\ pc = "done" /\ FallbackRan
    /\ back_bytes = "image" /\ <<"ocr", "back">> \in calls

\* C10 as stated: in every response a driving_since that is not null implies that the
\* text considered for the front side held a СТАЖ marker.
C10_DrivingSinceNeedsMarker ==
    (pc = "done" /\ response.status # "failed") =>
        (response.fields["driving_since"].value # None
            => \E i \in 0..(Len(front_context_text) - 4) :
                   Upper(SubSeq(front_context_text, i + 1, i + 4)) = <<1057, 1058, 1040, 1046>>)

\* C10 amended: in every response a driving_since that is not null either is the date
\* read from the driving_since region of the front, which is accepted without any СТАЖ
\* marker, or was taken from the text of the fallback full-image pass, and then that
\* text holds a СТАЖ marker.
C10_DrivingSinceFromRegionOrMarker ==
    (pc = "done" /\ response.status # "failed") =>
        (response.fields["driving_since"].value # None
            => \/ response.fields["driving_since"].value =
                      normalize_date(_strip_label_prefix(_roi_text(front_rois, "driving_since")))
               \/ \E i \in 0..(Len(fallback_text) - 4) :
                      Upper(SubSeq(fallback_text, i + 1, i + 4)) = <<1057, 1058, 1040, 1046>>)

\* a driving_since that the regions did not give and the fallback text did
C10_Witness ==
    /\ pc = "done" /\ response.status # "failed" /\ FallbackRan
    /\ Empty(region_parsed["driving_since"][1])
    /\ response.fields["driving_since"].value # None

\* C11: in every response a driving_since that is not null is strictly after the
\* birth_date of the response when that is present, and strictly before the date of a
\* 4B marker detected in the context text of the front when there is one.
C11_DrivingSinceBetweenBirthAndExpiry ==
    (pc = "done" /\ response.status # "failed") =>
        LET driving_since == response.fields["driving_since"].value
            birth_date == response.fields["birth_date"].value
            valid_until == _extract_marker_date(front_context_text, {<<52, 66>>})
        IN driving_since # None =>
               /\ ~Empty(birth_date) => ~StrLE(driving_since[2], birth_date[2])
               /\ valid_until # None => ~StrLE(valid_until[2], driving_since[2])

\* the date a text written as day, month, year denotes: a year of two digits yy is
\* 2000 + yy below 30 and 1900 + yy from 30 on
YearOf(year) == IF Len(year) = 2
                THEN (IF ToInt(year) < 30 THEN 2000 + ToInt(year) ELSE 1900 + ToInt(year))
                ELSE ToInt(year)

\* a date of the calendar, written YYYY-MM-DD, or null for a day or month that is not
ReferenceDate(year, month, day) ==
    IF /\ year \in 1..9999 /\ month \in 1..12 /\ day >= 1
       /\ day <= (CASE month = 2 -> IF (year % 4 = 0 /\ year % 100 # 0) \/ year % 400 = 0
                                     THEN 29 ELSE 28
                     [] month \in {4, 6, 9, 11} -> 30
                     [] OTHER -> 31)
    THEN Str(Pad(year, 4) \o <<45>> \o Pad(month, 2) \o <<45>> \o Pad(day, 2))
    ELSE None

\* C12: normalize_date follows the reference rule: a text that is a date of the calendar
\* written day, month, year with ".", "-" or "/" between them, or written YYYY-MM-DD,
\* gives that date as YYYY-MM-DD, a year of two digits being 2000 + yy below 30 and
\* 1900 + yy otherwise, and a text whose day or month is impossible gives null.
C12_NormalizeDateReference ==
    pc = "date" =>
        /\ \A d \in DayTexts, sep \in DATE_SEPARATORS, m \in MonthTexts, y \in YearTexts :
               call_arg = DmyText(d, sep, m, y) =>
                   call_result = ReferenceDate(YearOf(y), ToInt(m), ToInt(d))
        /\ \A y \in DATE_YEARS, m \in DATE_MONTHS, d \in DATE_DAYS :
               call_arg = IsoText(y, m, d) => call_result = ReferenceDate(y, m, d)

\* a text of the form YYYY-MM-DD
IsCanonicalDate(text) ==
    /\ Len(text) = 10
    /\ \A i \in {1, 2, 3, 4, 6, 7, 9, 10} : text[i] \in 48..57
    /\ text[5] = 45 /\ text[8] = 45

\* C13: whenever normalize_date returns a date d, d has the form YYYY-MM-DD and
\* normalize_date(d) is d again.
C13_NormalizeDateIdempotent ==
    /\ (pc \in {"date", "date_again"} /\ call_result # None) =>
           IsCanonicalDate(call_result[2])
    /\ pc = "date_again" => call_again = call_result

AllDigits(text) == \A i \in 1..Len(text) : text[i] \in 48..57

\* the digits of the text once the letters that recognition confuses with digits are
\* read as digits
RecoverableDigits(text) == SelectSeq(_normalize_digit_ocr(text), LAMBDA c : c \in 48..57)

\* two digits, a space, two digits, a space, six digits
IsLicenseShape(text) ==
    /\ Len(text) = 12
    /\ \A i \in {1, 2, 4, 5, 7, 8, 9, 10, 11, 12} : text[i] \in 48..57
    /\ text[3] = 32 /\ text[6] = 32

\* C14: normalize_license_number gives, for a digit string of ten or more digits, its
\* first ten digits written DD DD DDDDDD, and for a text of that spaced form the text
\* itself; for a text with fewer than ten recoverable digits it gives null; every
\* result that is not null has the form DD DD DDDDDD.
C14_LicenseNumber ==
    pc = "license" =>
        /\ (AllDigits(call_arg) /\ Len(call_arg) >= 10) =>
               call_result = Str(Spaced(SubSeq(call_arg, 1, 10)))
        /\ IsLicenseShape(call_arg) => call_result = Str(call_arg)
        /\ Len(RecoverableDigits(call_arg)) < 10 => call_result = None
        /\ call_result # None => IsLicenseShape(call_result[2])

\* a digit string of more than ten digits, cut to its first ten
C14_Witness ==
    /\ pc = "license" /\ AllDigits(call_arg) /\ Len(call_arg) > 10
    /\ call_result # None

\* A, A1, B, B1, C, C1, D, D1, BE, CE, DE, M, TM, TB
VOCABULARY ==
    { <<65>>, <<65, 49>>, <<66>>, <<66, 49>>, <<67>>, <<67, 49>>, <<68>>, <<68, 49>>,
      <<66, 69>>, <<67, 69>>, <<68, 69>>, <<77>>, <<84, 77>>, <<84, 66>> }

\* a letter, a digit or the underscore
IsWordChar(c) ==
    c \in 48..57 \/ c \in 65..90 \/ c \in 97..122 \/ c = 95 \/ c \in 1040..1103
        \/ c = 1025 \/ c = 1105

\* the whole words of a text: its maximal runs of word characters, in their order
RECURSIVE WholeWords(_)
WholeWords(text) ==
    IF text = <<>> THEN <<>>
    ELSE IF ~IsWordChar(Head(text)) THEN WholeWords(Tail(text))
    ELSE LET n == CHOOSE k \in 1..Len(text) :
                      /\ \A j \in 1..k : IsWordChar(text[j])
                      /\ (k = Len(text) \/ ~IsWordChar(text[k + 1]))
         IN <<SubSeq(text, 1, n)>> \o WholeWords(SubSeq(text, n + 1, Len(text)))

\* C15: parse_categories returns the whole words of the text that, upper-cased, belong
\* to the vocabulary: each of them once, upper-cased, in the order of their first
\* appearance, and nothing else; the empty text gives the empty list.
C15_Categories ==
    pc = "categories" =>
        LET words == WholeWords(Upper(call_arg))
            found == call_result[2]
            first(token) == CHOOSE i \in 1..Len(words) :
                                words[i] = token /\ \A j \in 1..(i - 1) : words[j] # token
        IN /\ call_result[1] = "list"
           /\ {found[i] : i \in 1..Len(found)} = {words[i] : i \in 1..Len(words)} \cap VOCABULARY
           /\ \A i, j \in 1..Len(found) :
                  i < j => found[i] # found[j] /\ first(found[i]) < first(found[j])
           /\ call_arg = <<>> => found = <<>>

\* a text with a category written twice in lower case and a word that only contains
\* category letters: the category is returned once, in upper case
C15_Witness ==
    /\ pc = "categories"
    /\ call_result = List(<< <<66>> >>)
    /\ \E i, j \in 1..Len(WholeWords(Upper(call_arg))) :
           /\ i # j
           /\ WholeWords(Upper(call_arg))[i] = WholeWords(Upper(call_arg))[j]
           /\ WholeWords(Upper(call_arg))[i] \in VOCABULARY
    /\ \E i \in 1..Len(WholeWords(call_arg)) :
           WholeWords(call_arg)[i] = <<67, 97, 116, 101, 103, 111, 114, 105, 101, 115>>

\* the text of the issuer region a direct call of parse_front was given
IssuerText == call_arg["license_issued_by"].text

HasLatin(text) == \E i \in 1..Len(text) : text[i] \in 65..90 \/ text[i] \in 97..122

\* the region results with the tokens of the issuer text that hold a Latin letter left out
WithoutLatinTokens ==
    [call_arg EXCEPT !["license_issued_by"].text =
        Join(SelectSeq(Split(@), LAMBDA token : ~HasLatin(token)), <<32>>)]

\* C16: the issuer parse_front returns is built from the Cyrillic text of the issuer
\* region only: a text without a Cyrillic letter gives null; the tokens of the text that
\* hold Latin letters add nothing, the value being that of the text without them; and
\* no token of the value is followed by an equal token.
C16_IssuerIgnoresLatin ==
    (pc = "front" /\ "license_issued_by" \in DOMAIN call_arg) =>
        LET issuer == call_result["license_issued_by"][1]
            tokens == Split(issuer[2])
        IN /\ ~HasCyrillic(IssuerText) => issuer = None
           /\ issuer = parse_front(WithoutLatinTokens, <<>>)["license_issued_by"][1]
           /\ \A i \in 1..(Len(tokens) - 1) : tokens[i] # tokens[i + 1]

\* the cleaned text of a name region of a direct call of parse_front
CleanedName(key) ==
    IF key \in DOMAIN call_arg THEN _clean_name_line(normalize_whitespace(call_arg[key].text))
    ELSE <<>>

\* the cleaned surname, name and patronymic that are not empty, joined by spaces
JoinedParts ==
    Join(SelectSeq(<<CleanedName("surname"), CleanedName("name"), CleanedName("patronymic")>>,
                   LAMBDA part : part # <<>>),
         <<32>>)

\* C17: in parse_front the joined parts are the full name when there is no full-name
\* line; the full-name line is the full name when there is no part; and when both
\* exist, the surname part is empty and the line has at least as many words as the
\* joined parts, the full name is the cleaned line with the confidence of its region.
C17_FullNameChoice ==
    (pc = "front" /\ "full_name_line" \in DOMAIN call_arg) =>
        LET line == CleanedName("full_name_line")
            full_name == call_result["full_name"]
            from_line == <<Str(line), call_arg["full_name_line"].confidence>>
        IN /\ (line = <<>> /\ JoinedParts # <<>>) => full_name[1] = Str(JoinedParts)
           /\ (line # <<>> /\ JoinedParts = <<>>) => full_name = from_line
           /\ (line # <<>> /\ JoinedParts # <<>> /\ CleanedName("surname") = <<>>
                   /\ Len(Split(line)) >= Len(Split(JoinedParts))) => full_name = from_line

\* no surname, a name of one word and a line of two: the line is the full name
C17_Witness ==
    /\ pc = "front" /\ "full_name_line" \in DOMAIN call_arg
    /\ CleanedName("surname") = <<>> /\ JoinedParts # <<>>
    /\ Len(Split(CleanedName("full_name_line"))) > Len(Split(JoinedParts))
    /\ call_result["full_name"] = <<Str(CleanedName("full_name_line")), 880>>

\* some contour of the image covers at least the given thousandths of its area
Covers(thousandths, vertices) ==
    \E i \in DOMAIN image :
        image[i].area >= thousandths /\ image[i].vertices \in vertices

\* C18: alignment tries the keypoint warp, then the contour warp, then the plain
\* resize, and stops at the first that succeeds: the tag is keypoints exactly when the
\* keypoint warp gave an image, contour exactly when it did not and the image has a
\* contour to warp by, resize exactly when neither did; a keypoint step that is not
\* configured, is switched off, finds nothing or raises never ends the alignment; and
\* the resize warning of the side is in the warnings exactly when the tag is resize.
C18_AlignmentOrder ==
    /\ raised = "none"
    /\ pc = "detect_and_warp" => (keypoint_outcome # "warped" /\ alignment = "contour")
    /\ pc = "aligned" =>
        LET by_keypoints == keypoint_outcome = "warped"
            by_contour == Covers(80, {4}) \/ Covers(50, {4, 6})
            resize_warnings == SelectSeq(warnings, LAMBDA w : w = WarnResize(side_arg))
        IN /\ alignment \in ALIGNMENTS
           /\ alignment = "keypoints" <=> by_keypoints
           /\ alignment = "contour" <=> (~by_keypoints /\ by_contour)
           /\ alignment = "resize" <=> (~by_keypoints /\ ~by_contour)
           /\ (warped = "resize") <=> (alignment = "resize")
           /\ Len(resize_warnings) = (IF alignment = "resize" THEN 1 ELSE 0)

\* the keypoint detection raised, no contour is large enough: resize, with its warning
C18_Witness ==
    /\ pc = "aligned" /\ alignment = "resize"
    /\ keypoint_outcome = "detect_keypoints raised"
    /\ image # <<>>
    /\ warnings = <<WarnStore("back"), WarnResize("back")>>

\* the calls of a function that have returned a value, over all threads
ReturnedBy(function) ==
    UNION {{thread_results[t][i] :
               i \in {j \in DOMAIN thread_results[t] :
                         /\ thread_results[t][j][1] = function
                         /\ thread_results[t][j][3][1] # "raised"}} :
           t \in THREADS}

\* C19: whatever the interleaving of the threads, the constructor of each engine
\* returns an engine at most once; every call of get_ocr that returns, returns that one
\* engine; every call of _get_model that returns, returns that one model, or None
\* exactly when YOLO is not installed or the call has no model path.
C19_SingleEngine ==
    /\ Len(Constructed("PaddleOCR")) <= 1
    /\ Len(Constructed("YOLO")) <= 1
    /\ _OCR_INSTANCE \in {None, Instance("PaddleOCR", 1)}
    /\ _MODEL \in {None, Instance("YOLO", 1)}
    /\ \A result \in ReturnedBy("get_ocr") : result[3] = Instance("PaddleOCR", 1)
    /\ \A result \in ReturnedBy("_get_model") :
          IF ~YOLO \/ result[2] = <<>> THEN result[3] = None
          ELSE result[3] = Instance("YOLO", 1)

\* the race: a thread saw no engine at the first test and waits for the lock, while
\* the thread that holds the lock has just constructed the engine
C19_Witness ==
    \E waiting \in THREADS, holder \in THREADS :
        /\ thread_call[waiting][1] = "get_ocr" /\ thread_pc[waiting] = "acquire"
        /\ thread_call[holder][1] = "get_ocr" /\ thread_pc[holder] = "release"
        /\ _OCR_LOCK = holder
        /\ _OCR_INSTANCE = Instance("PaddleOCR", 1)
        /\ constructor_calls = <<<<"PaddleOCR", holder>>>>

\* C20: every response extract returns, the failures included, has the seven fields,
\* each with a value (null, a text or a list) and a confidence between 0 and 1, and a
\* status of ok, partial or failed.
C20_WellFormed ==
    response # NoResponse =>
        /\ response.status \in {"ok", "partial", "failed"}
        /\ DOMAIN response.fields = FieldSet
        /\ Cardinality(FieldSet) = 7
        /\ \A name \in FieldSet :
              /\ DOMAIN response.fields[name] = {"value", "confidence"}
              /\ response.fields[name].value[1] \in {"none", "str", "list"}
              /\ response.fields[name].confidence \in 0..1000

\* a failure after an exception of the second side, with the full field map of nulls
C20_Witness ==
    /\ response # NoResponse /\ response.status = "failed"
    /\ raised = "Exception"
    /\ <<"ocr", "front">> \in calls
    /\ DOMAIN response.fields = FieldSet
    /\ \A name \in FieldSet : response.fields[name].confidence = 0

\* the labels of the detected anchors that template has a position for
Matched(template) == DOMAIN anchors \cap DOMAIN FRONT_ANCHORS[template]

\* the offsets of the matched anchors of template along axis 1 (x) or 2 (y)
Offsets(template, axis) ==
    [label \in Matched(template) |-> anchors[label][axis] - FRONT_ANCHORS[template][label][axis]]

\* twice the median of the values of a function: the sum of the two values that have
\* at most half of the others below them and at most half above them
MedianTwice(offsets) ==
    LET n == Cardinality(DOMAIN offsets)
        below(v) == Cardinality({k \in DOMAIN offsets : offsets[k] < v})
        above(v) == Cardinality({k \in DOMAIN offsets : offsets[k] > v})
        values == {offsets[k] : k \in DOMAIN offsets}
        lower == CHOOSE v \in values : 2 * below(v) < n /\ 2 * above(v) <= n
        upper == CHOOSE v \in values : 2 * below(v) <= n /\ 2 * above(v) < n
    IN lower + upper

\* the sum over the matched anchors of the absolute residuals, in half pixels
Residual(template) ==
    LET dx == MedianTwice(Offsets(template, 1))
        dy == MedianTwice(Offsets(template, 2))
        RECURSIVE Sum(_)
        Sum(labels) ==
            IF labels = {} THEN 0
            ELSE LET l == CHOOSE k \in labels : TRUE
                 IN Abs(2 * Offsets(template, 1)[l] - dx) + Abs(2 * Offsets(template, 2)[l] - dy)
                    + Sum(labels \ {l})
    IN Sum(Matched(template))

\* template a is at least as good as template b by (matched count, minus mean residual)
AtLeastAsGood(a, b) ==
    \/ Cardinality(Matched(a)) > Cardinality(Matched(b))
    \/ /\ Cardinality(Matched(a)) = Cardinality(Matched(b))
       /\ Residual(a) * Cardinality(Matched(b)) <= Residual(b) * Cardinality(Matched(a))

\* C21: when a template has two or more matched anchors, the selected template has
\* two or more and none with two or more beats it by (matched count, minus mean
\* residual); the offset is the median dx and median dy of its matched anchors; each of
\* its regions is moved by the offset, rounded to a pixel and clamped at zero, with its
\* width and height kept.  When no template has two matched anchors the offset is zero
\* and the regions are those of the template unmoved.
C21_AnchorSelection ==
    pc = "template_selected" =>
        LET accepted == {t \in DOMAIN FRONT_ANCHORS : Cardinality(Matched(t)) >= 2}
            chosen == selected.template
            original == FRONT_ROI_TEMPLATES[chosen]
            moved(was, now, offset) ==
                IF 2 * was + offset <= 0 THEN now = 0 ELSE Abs(2 * now - 2 * was - offset) <= 1
        IN IF accepted # {}
           THEN /\ chosen \in accepted
                /\ \A other \in accepted : AtLeastAsGood(chosen, other)
                /\ selected.shift = <<MedianTwice(Offsets(chosen, 1)),
                                      MedianTwice(Offsets(chosen, 2))>>
                /\ DOMAIN selected.rois = DOMAIN original
                /\ \A key \in DOMAIN original :
                      /\ selected.rois[key].w = original[key].w
                      /\ selected.rois[key].h = original[key].h
                      /\ selected.rois[key].x >= 0 /\ selected.rois[key].y >= 0
                      /\ moved(original[key].x, selected.rois[key].x, selected.shift[1])
                      /\ moved(original[key].y, selected.rois[key].y, selected.shift[2])
           ELSE /\ selected.shift = <<0, 0>>
                /\ selected.rois = original

\* two anchors high in the image: an offset of 1.5 pixels right and 264.5 pixels up,
\* which moves the surname region to x = 522 and past the top of the image, to y = 0
C21_Witness ==
    /\ pc = "template_selected"
    /\ Cardinality(DOMAIN anchors) = 2
    /\ selected.template = "v2" /\ selected.shift = <<3, -529>>
    /\ selected.rois["surname"] = Region(522, 0, 780, 60)

\* the templates whose sample regions gave a text to score, with an average above the
\* starting best of -1.0
Scorable ==
    {t \in DOMAIN FRONT_ROI_TEMPLATES :
        /\ TemplateScore(template_texts, t).count > 0
        /\ TemplateScore(template_texts, t).total > -4000 * TemplateScore(template_texts, t).count}

\* the average score of template a is at least that of template b
AverageAtLeast(a, b) ==
    TemplateScore(template_texts, a).total * TemplateScore(template_texts, b).count
        >= TemplateScore(template_texts, b).total * TemplateScore(template_texts, a).count

\* C22: whenever no template has two or more matched anchors, whether or not an anchor
\* was detected, the templates are scored on the three sample fields and the one with
\* the best average is selected; the default template with a zero offset is used only
\* when the scoring yields nothing.
C22_ScoringFallback ==
    (pc = "template_selected"
        /\ \A t \in DOMAIN FRONT_ANCHORS : Cardinality(Matched(t)) < 2) =>
        /\ scoring_calls = 1
        /\ IF Scorable # {}
           THEN /\ selected.template \in Scorable
                /\ \A other \in Scorable : AverageAtLeast(selected.template, other)
           ELSE /\ selected.template = DEFAULT_FRONT_TEMPLATE
                /\ selected.shift = <<0, 0>>

\* the same with no anchor detected at all, which is the case the code scores in
C22_ScoringWithoutAnchors ==
    (pc = "template_selected" /\ DOMAIN anchors = {}) =>
        /\ scoring_calls = 1
        /\ IF Scorable # {}
           THEN /\ selected.template \in Scorable
                /\ \A other \in Scorable : AverageAtLeast(selected.template, other)
           ELSE /\ selected.template = DEFAULT_FRONT_TEMPLATE
                /\ selected.shift = <<0, 0>>

\* one anchor detected, the sample regions of v1 read well and those of v2 not at all:
\* the default v2 is selected and nothing was scored
C22_Unscored ==
    /\ pc = "template_selected"
    /\ Cardinality(DOMAIN anchors) = 1
    /\ Scorable = {"v1"}
    /\ selected.template = "v2"
    /\ scoring_calls = 0

\* no anchor detected and v1 selected by its score
C22_Scored ==
    /\ pc = "template_selected"
    /\ DOMAIN anchors = {}
    /\ Scorable = {"v1"}
    /\ selected.template = "v1"

\* the calls of run_ocr made for the region name
CallsFor(name) == SelectSeq(ocr_calls, LAMBDA c : c[1] = name)

\* the first candidate of the region name was good enough
FirstPassGood(name) ==
    /\ name \in DOMAIN first_pass
    /\ _is_good_enough(name, first_pass[name][1], first_pass[name][2])

\* C23: a region whose first candidate is good enough has exactly that candidate's text
\* and confidence as its result and one recognition call, the first; more than one
\* recognition call is made only for a region whose first candidate was not good enough.
C23_AcceptFirstPass ==
    \A i \in 1..Len(rois_arg) :
        LET name == rois_arg[i][1]
        IN /\ (name \in DOMAIN results /\ FirstPassGood(name)) =>
                  /\ results[name] = Roi(first_pass[name][1], first_pass[name][2])
                  /\ CallsFor(name) = << <<name, 0, 0>> >>
           /\ Len(CallsFor(name)) > 1 => (name \in DOMAIN first_pass /\ ~FirstPassGood(name))

\* the surname was accepted at once and the birth date, read as a surname, was searched
\* through the five variants of its region in every image
C23_Witness ==
    /\ pc = "ocr_rois_done"
    /\ FirstPassGood("surname")
    /\ results["surname"] = Roi(TXT_SURNAME, 900)
    /\ Len(CallsFor("surname")) = 1
    /\ ~FirstPassGood("birth_date")
    /\ Len(CallsFor("birth_date")) = 1 + 5 * NumProcessed

\* the structural check of a field on a text, with the least name quality (in
\* thousandths) that a name-like field accepts
StructureHolds(field, text, least_quality) ==
    /\ field \in {"birth_date", "driving_since"} => normalize_date(text) # None
    /\ field = "license_number" => Cardinality({i \in 1..Len(text) : IsDigit(text[i])}) = 10
    /\ field \in {"surname", "name", "patronymic", "full_name_line"} =>
           _name_quality(text) >= least_quality

\* C24: a candidate is good enough if and only if its confidence is at least the
\* threshold of the field and it passes the structural check of the field: a date field
\* normalizes to a date, the license number holds ten digits, and a name-like field has
\* a name quality of at least 0.4.
C24_GoodEnough ==
    pc = "good_enough" =>
        (call_result = Bool(TRUE)) <=>
            /\ call_arg[3] >= FIELD_THRESHOLDS(call_arg[1])
            /\ StructureHolds(call_arg[1], call_arg[2], 400)

\* C24 as first stated: the same with any non-zero name quality for a name-like field
C24_NonZeroQuality ==
    pc = "good_enough" =>
        (call_result = Bool(TRUE)) <=>
            /\ call_arg[3] >= FIELD_THRESHOLDS(call_arg[1])
            /\ StructureHolds(call_arg[1], call_arg[2], 1)

\* a surname of quality 0.167 with a confidence above the threshold is not good enough
C24_Witness ==
    /\ pc = "good_enough"
    /\ call_arg = <<"surname", TXT_MIXED_NAME, 800>>
    /\ _name_quality(TXT_MIXED_NAME) = 167
    /\ call_result = Bool(FALSE)

\* the names of the regions handed to _ocr_rois
RegionNames == {rois_arg[i][1] : i \in 1..Len(rois_arg)}

\* C25: a failure for one region never propagates: no exception is raised, every region
\* the loop has passed has a result, at the end every region has one, and a region for
\* which no recognition call returned a text (the engine raised, returned nothing, or
\* the crop was empty) has an empty text with zero confidence.
C25_FailureContained ==
    /\ raised = "none"
    /\ \A i \in 1..Len(rois_arg) : i < roi_index => rois_arg[i][1] \in DOMAIN results
    /\ pc = "ocr_rois_done" =>
          /\ DOMAIN results = RegionNames
          /\ \A name \in RegionNames :
                /\ DOMAIN results[name] = {"text", "confidence"}
                /\ name \notin ocr_texts => results[name] = Roi(<<>>, 0)

\* the license number region lies below the image and is never read; the issuer region
\* after it is read, and a later variant of it gives the text that the first call, which
\* returned nothing, did not
C25_Witness ==
    /\ pc = "ocr_rois_done"
    /\ RegionNames = {"license_number", "license_issued_by"}
    /\ "license_issued_by" \in DOMAIN first_pass
    /\ CallsFor("license_number") = <<>>
    /\ results["license_number"] = Roi(<<>>, 0)
    /\ first_pass["license_issued_by"] = <<<<>>, 0>>
    /\ Len(CallsFor("license_issued_by")) > 1
    /\ results["license_issued_by"].text # <<>>

\* the response carries the warning text
Warned(text) == \E i \in 1..Len(response.warnings) : response.warnings[i] = Warn(text)

\* C26: when extract had to use a capability that is unavailable (the image library
\* for a supplied image, or the recognition engine for a region of a decoded image),
\* the response is failed and its warnings carry the reason of the dependency failure.
C26_DependencyReason ==
    pc = "done" =>
        /\ (~cv2_available /\ (Supplied(front_bytes) \/ Supplied(back_bytes))) =>
               /\ response.status = "failed"
               /\ Warned("OpenCV and numpy are required for OCR pipeline.")
        /\ (~PaddleOCR /\ \E side \in {"front", "back"} : <<"ocr", side>> \in calls) =>
               /\ response.status = "failed"
               /\ Warned("PaddleOCR and numpy are required for OCR.")

\* the part of C26 that the code keeps: the response is failed in both cases, and it
\* carries the reason when the image library is the one that is missing
C26_FailedStatus ==
    pc = "done" =>
        /\ (~cv2_available /\ (Supplied(front_bytes) \/ Supplied(back_bytes))) =>
               /\ response.status = "failed"
               /\ Warned("OpenCV and numpy are required for OCR pipeline.")
        /\ (~PaddleOCR /\ \E side \in {"front", "back"} : <<"ocr", side>> \in calls) =>
               response.status = "failed"

\* without the recognition engine the regions of a decoded front image were read, and
\* the response says only that no text was extracted
C26_SilentEngine ==
    /\ pc = "done"
    /\ ~PaddleOCR /\ cv2_available
    /\ <<"ocr", "front">> \in calls
    /\ response.status = "failed"
    /\ Warned("No text extracted from images.")
    /\ ~Warned("PaddleOCR and numpy are required for OCR.")

\* the results of the calls of _apply_name_dictionary that have returned
Applied == UNION {{thread_results[t][i] : i \in 1..Len(thread_results[t])} : t \in THREADS}

\* C27: the dictionary is loaded at most once per process, whatever the interleaving of
\* the threads, and the global is not assigned again after the first load; without a
\* path or without a readable file a call returns its text unchanged.
C27_LoadedOnce ==
    /\ Len(assignments) <= 1
    /\ (~dictionary_path \/ ~file_readable) => \A r \in Applied : r[3] = r[2]

\* the part of C27 that the code keeps: without a path or without a readable file every
\* call returns its text unchanged, every load assigns the same content, and there are
\* no more loads than threads
C27_NoDictionaryNoOp ==
    /\ (~dictionary_path \/ ~file_readable) =>
           /\ \A r \in Applied : r[3] = r[2]
           /\ \A i \in 1..Len(assignments) : assignments[i] = Dict(<<>>)
    /\ \A i, j \in 1..Len(assignments) : assignments[i] = assignments[j]
    /\ Len(assignments) <= NumThreads

\* two threads found the global unset, both read the file, and both assigned it
C27_LoadedTwice ==
    /\ dictionary_path /\ file_readable
    /\ assignments = <<DICTIONARY_FILE, DICTIONARY_FILE>>
    /\ \A t \in THREADS : Len(thread_results[t]) = 1

\* the regions of a call of parse_front hold a birth date and a license number that
\* _is_good_enough accepts
CleanRegions ==
    /\ pc = "front"
    /\ {"birth_date", "license_number"} \subseteq DOMAIN call_arg
    /\ _is_good_enough("birth_date", call_arg["birth_date"].text,
                       call_arg["birth_date"].confidence)
    /\ _is_good_enough("license_number", call_arg["license_number"].text,
                       call_arg["license_number"].confidence)

\* C28: when the birth_date region holds a valid date and the license_number region a
\* number of ten digits, both good enough on the first pass, parse_front gives the date
\* of the region and the number of the region, neither of them null, each with the
\* confidence of its region.
C28_CleanRegionsRecovered ==
    CleanRegions =>
        /\ call_result["birth_date"][1] # None
        /\ call_result["birth_date"]
               = <<normalize_date(call_arg["birth_date"].text), call_arg["birth_date"].confidence>>
        /\ call_result["license_number"][1] # None
        /\ call_result["license_number"]
               = <<normalize_license_number(call_arg["license_number"].text),
                   call_arg["license_number"].confidence>>

\* the regions read '12.05.1990' and '1234567890' with confidence 0.9, and parse_front
\* gives neither a birth date nor a license number
C28_CleanRegionsLost ==
    /\ CleanRegions
    /\ call_arg["birth_date"] = Roi(TXT_BIRTH_BARE, 900)
    /\ call_arg["license_number"] = Roi(RemoveSpace(TXT_LICENSE_BARE), 900)
    /\ call_result["birth_date"] = <<None, 900>>
    /\ call_result["license_number"] = <<None, 900>>

\* the required field key was missing after the parse of the regions and has a value
\* after the fallback pass
FilledByFallback(key) ==
    /\ key \in DOMAIN region_parsed /\ key \in DOMAIN parsed_front
    /\ fallback_text # <<>>
    /\ _is_missing_value(region_parsed[key][1])
    /\ ~_is_missing_value(parsed_front[key][1])

\* C29: a full_name or birth_date that was missing after the parse of the regions and is
\* filled from the fallback text has a confidence below 0.75, whatever the confidence of
\* the engine, and the response of extract is then partial, never ok.
C29_FallbackNeverOk ==
    \A key \in {"full_name", "birth_date"} :
        FilledByFallback(key) =>
            /\ parsed_front[key][2] < 750
            /\ pc = "done" =>
                  /\ response.status = "partial"
                  /\ response.fields[key].confidence < 750

\* the regions gave no name, the fallback text read with confidence 1.0 gave one, and
\* the response is partial with the name at 0.85 * 0.85, the most a fallback name can have
C29_Witness ==
    /\ pc = "done"
    /\ FilledByFallback("full_name")
    /\ fallback_conf = 1000
    /\ parsed_front["full_name"][2] \in 722..723
    /\ response.status = "partial"

\* the points of a list
PointSet(pts) == {pts[i] : i \in 1..Len(pts)}

\* C30: for four distinct points the ordered result (top-left, top-right, bottom-right,
\* bottom-left) is a permutation of the input: no point is used for two corners and
\* none is dropped.
C30_OrderIsPermutation ==
    pc = "ordered" =>
        /\ PointSet(call_result) = PointSet(call_arg)
        /\ \A i, j \in 1..4 : i # j => call_result[i] # call_result[j]

\* what the code keeps: each corner is an input point, the top-left has the least and
\* the bottom-right the greatest x + y, the top-right the least and the bottom-left the
\* greatest y - x
C30_ExtremePoints ==
    pc = "ordered" =>
        /\ PointSet(call_result) \subseteq PointSet(call_arg)
        /\ \A p \in PointSet(call_arg) :
              /\ call_result[1][1] + call_result[1][2] <= p[1] + p[2]
              /\ call_result[3][1] + call_result[3][2] >= p[1] + p[2]
              /\ call_result[2][2] - call_result[2][1] <= p[2] - p[1]
              /\ call_result[4][2] - call_result[4][1] >= p[2] - p[1]

\* the box of a rectangle turned by 45 degrees: its top corner is taken for the top-left
\* and for the top-right, and its left corner is dropped
C30_DiamondCollapses ==
    /\ pc = "ordered"
    /\ call_arg = << <<5, 0>>, <<10, 5>>, <<5, 10>>, <<0, 5>> >>
    /\ call_result = << <<5, 0>>, <<5, 0>>, <<10, 5>>, <<5, 10>> >>

====
